---- MODULE Spec2Model ----
(***************************************************************************)
(* HayoTrans: the RGSS archive codec (LCG keystream, V1/V3 writer and      *)
(* reader) and the RPG Maker MV/MZ event-command translation engine        *)
(* (page walker, per-opcode handlers, extraction and injection).           *)
(*                                                                         *)
(* A u32 is modelled as its four little-endian bytes, so that arithmetic   *)
(* wraps at 2^32 exactly and to_le_bytes / from_le_bytes are the identity  *)
(* on the representation.  A string is a sequence of one-character         *)
(* strings; a byte string is a sequence of 0..255.                         *)
(***************************************************************************)
EXTENDS Integers, Sequences, FiniteSets, TLC

VARIABLES
    \* ---- keystream object under test (archiver/rgss/key.rs)
    key,            \* RgssKey: [state, multiplier, accumulator]
    buf,            \* byte buffer the key operations are applied to
    buf0,           \* the buffer as first loaded
    kval,           \* last u32 produced by decrypt_int
    klog,           \* operations applied to the key/buffer so far
    \* ---- archive writer / file / reader (archiver/rgss/writer.rs, reader.rs)
    version,        \* RgssWriter.version
    entries,        \* RgssWriter.entries: sequence of PackEntry
    v3_initial_key, \* RgssWriter.v3_initial_key: <<>> is None, else a u32
    file,           \* bytes of the archive file on disk
    rd,             \* result of RgssReader::open
    extracted,      \* results of extract_to_memory, one per read entry
    apc,            \* position of the pack/unpack run
    \* ---- event page walker (parser/rpg_maker_mv_mz/event_page.rs)
    list,           \* the command list of the page, as JSON
    list0,          \* the command list as read from the file
    path_prefix,    \* path of the page (or common event) in the file
    commands,       \* Vec<EventCommand> the walker works on
    index,          \* position of the walker in commands (from 0)
    eoptions,       \* ExtractionOptions
    ioptions,       \* InjectionOptions
    translations,   \* map from unit id to translated text
    units,          \* units extracted by the current pass
    prev_units,     \* units returned by the previous extract pass
    context,        \* ExtractionContext
    result,         \* InjectionResult accumulated by the walker
    eresult,        \* ExtractionResult of the last handler call of the walk
    last,           \* index the last loop iteration acted at (-1: none yet)
    before,         \* commands as they were before the last inject iteration
    ppc,            \* position of the walker
    \* ---- context window and path patterns (parser/types)
    added,          \* the lines handed to add_preceding_line so far
    pattern,        \* PathPattern.pattern
    regex,          \* PathPattern.regex: <<>> is None, else the compiled items
    subject,        \* the path text handed to matches
    matched,        \* result of matches: <<>> before the call
    tpc,            \* position of the context / pattern / split / plugin run
    \* ---- line splitting (parser/types/options.rs)
    split_options,  \* the InjectionOptions split_text is called on
    split_input,    \* the text handed to split_text
    split_lines,    \* the lines split_text returned
    \* ---- plugin commands (parser/rpg_maker_mv_mz/handlers/plugin.rs)
    user_configs    \* PluginCommandHandler.user_configs: plugin name -> config

keyVars  == <<key, buf, buf0, kval, klog>>
archVars == <<version, entries, v3_initial_key, file, rd, extracted, apc>>
pageVars == <<list, list0, path_prefix, commands, index, eoptions, ioptions,
              translations, units, prev_units, context, result, eresult, last, before, ppc>>
splitVars == <<split_options, split_input, split_lines>>
typeVars == <<added, pattern, regex, subject, matched, tpc, splitVars, user_configs>>
vars     == <<keyVars, archVars, pageVars, typeVars>>

(***************************************************************************)
(* Bounds of the model                                                     *)
(***************************************************************************)
MaxOps == 3
MaxBufLen == 5
MaxEntries == 2
MaxNameLen == 2
MaxDataLen == 5
MaxListLen == 3
MaxInjectLen == 3
MaxWindow == 3
MaxAdded == 4
MaxPatternSegments == 2
MaxPathLen == 5
MaxScriptLen == 2
MaxTextLen == 4
MaxLineLength == 3
MaxPluginPatterns == 2
MaxFairLen == 3

(***************************************************************************)
(* Bytes and 32-bit words                                                   *)
(***************************************************************************)
Byte == 0..255

RECURSIVE XorBits(_, _, _)
XorBits(a, b, n) ==
    IF n = 0 THEN 0
    ELSE (((a % 2) + (b % 2)) % 2) + 2 * XorBits(a \div 2, b \div 2, n - 1)

AddByteWrapping(a, b) == (a + b) % 256

\* u8 ^ u8
XorByte(a, b) == XorBits(a, b, 8)

\* u32 ^ u32 on little-endian bytes
XorU32(a, b) == [i \in 1..4 |-> XorByte(a[i], b[i])]

\* u32::to_le_bytes of a small natural (lengths, sizes, offsets of the model)
ToLE(n) == << n % 256, (n \div 256) % 256, (n \div 65536) % 256,
              (n \div 16777216) % 256 >>

\* the value of a u32 whose top byte is below 128 (the model's lengths)
FromLE(b) == b[1] + (256 * b[2]) + (65536 * b[3]) + (16777216 * b[4])

\* s.wrapping_mul(m).wrapping_add(a) for a multiplier m < 2^23 and a < 2^23
WrappingMulAdd(s, m, a) ==
    LET t1 == (s[1] * m) + a
        t2 == (s[2] * m) + (t1 \div 256)
        t3 == (s[3] * m) + (t2 \div 256)
        t4 == (s[4] * m) + (t3 \div 256)
    IN  << t1 % 256, t2 % 256, t3 % 256, t4 % 256 >>

(***************************************************************************)
(* Constants of the archive format                                         *)
(***************************************************************************)
\* b"RGSSAD\0"
MAGIC == << 82, 71, 83, 83, 65, 68, 0 >>

\* 0xDEADCAFE
V1_INITIAL_KEY == << 254, 202, 173, 222 >>

\* 0x8E73A5C1, XORed into a generated V3 seed
V3_SEED_MASK == << 193, 165, 115, 142 >>

Versions == {"V1", "V3"}

header_byte(v) == IF v = "V1" THEN 1 ELSE 3

(***************************************************************************)
(* Inputs of the archive model                                             *)
(***************************************************************************)
\* seeds the model draws from: 0, 0xDEADCAFE, 0x12345678, 0xFFFFFFFF
Seeds == { ToLE(0), V1_INITIAL_KEY, << 120, 86, 52, 18 >>, << 255, 255, 255, 255 >> }

\* n bytes of test content, pattern p
Payload(n, p) == [i \in 1..n |-> (p + (37 * i)) % 256]

Patterns == {0, 165}

(***************************************************************************)
(* RgssKey                                                                 *)
(***************************************************************************)
RgssKeyNew(v) ==
    IF v = "V1"
    THEN [state |-> ToLE(0), multiplier |-> 7, accumulator |-> 3]
    ELSE [state |-> ToLE(0), multiplier |-> 9, accumulator |-> 3]

with_state(v, s) == [RgssKeyNew(v) EXCEPT !.state = s]

\* a step that drops the accumulator
StepWithoutAccumulator(k) == [k EXCEPT !.state = WrappingMulAdd(k.state, k.multiplier, 0)]

step(k) == [k EXCEPT !.state = WrappingMulAdd(k.state, k.multiplier, k.accumulator)]

RECURSIVE StepN(_, _)
StepN(k, n) == IF n = 0 THEN k ELSE StepN(step(k), n - 1)

\* decrypt_int / encrypt_int: result and the key afterwards
decrypt_int(k, value) == [out |-> XorU32(value, k.state), key |-> step(k)]

\* decrypt_string_v1 / encrypt_string_v1: one LCG step per byte
RECURSIVE decrypt_string_v1(_, _)
decrypt_string_v1(k, data) ==
    IF data = <<>> THEN [out |-> <<>>, key |-> k]
    ELSE LET r == decrypt_string_v1(step(k), Tail(data))
         IN  [out |-> <<XorByte(Head(data), k.state[1])>> \o r.out, key |-> r.key]

\* decrypt_string_v3 / encrypt_string_v3: byte i against byte (i mod 4) of the
\* state, the key is not stepped
decrypt_string_v3(k, data) ==
    [i \in 1..Len(data) |-> XorByte(data[i], k.state[((i - 1) % 4) + 1])]

\* decrypt_content / encrypt_content: j counts the bytes of the current word
RECURSIVE ContentLoop(_, _, _)
ContentLoop(k, data, j) ==
    IF data = <<>> THEN [out |-> <<>>, key |-> k]
    ELSE LET b == XorByte(Head(data), k.state[j + 1])
             r == IF j + 1 = 4 THEN ContentLoop(step(k), Tail(data), 0)
                               ELSE ContentLoop(k, Tail(data), j + 1)
         IN  [out |-> <<b>> \o r.out, key |-> r.key]

decrypt_content(k, data) == ContentLoop(k, data, 0)

\* the parts of the state a specification does not use
ArchIdle ==
    /\ version = "V1" /\ entries = <<>> /\ v3_initial_key = <<>>
    /\ file = <<>> /\ rd = [ok |-> FALSE, err |-> "NotOpened"]
    /\ extracted = <<>> /\ apc = "idle"

SplitIdle ==
    /\ split_options = <<>> /\ split_input = <<>> /\ split_lines = <<>>
    /\ user_configs = <<>>

TypeIdle ==
    /\ added = <<>> /\ pattern = <<>> /\ regex = <<>> /\ subject = <<>>
    /\ matched = <<>> /\ tpc = "idle"
    /\ SplitIdle

PageIdle ==
    /\ list = <<>> /\ list0 = <<>> /\ path_prefix = <<>> /\ commands = <<>>
    /\ index = 0 /\ eoptions = <<>> /\ ioptions = <<>> /\ translations = <<>>
    /\ units = <<>> /\ prev_units = <<>> /\ context = <<>> /\ result = <<>>
    /\ eresult = <<>> /\ last = -1 /\ before = <<>> /\ ppc = "idle"

(***************************************************************************)
(* RgssWriter                                                              *)
(***************************************************************************)
\* '/' and '\'
SLASH == 47
BACKSLASH == 92

\* archive_name.replace('/', "\\") of add_file
NormalizeName(name) == [i \in 1..Len(name) |-> IF name[i] = SLASH THEN BACKSLASH ELSE name[i]]

RECURSIVE WriteV1Entries(_, _)
WriteV1Entries(es, k) ==
    IF es = <<>> THEN <<>>
    ELSE LET e       == Head(es)
             len     == decrypt_int(k, ToLE(Len(e.archive_name)))
             name    == decrypt_string_v1(len.key, e.archive_name)
             size    == decrypt_int(name.key, ToLE(Len(e.data)))
             content == decrypt_content(with_state("V1", size.key.state), e.data)
         IN  len.out \o name.out \o size.out \o content.out
                 \o WriteV1Entries(Tail(es), size.key)

\* RgssWriter::write_v1: the bytes of the archive
write_v1(v, es) ==
    MAGIC \o <<header_byte(v)>> \o WriteV1Entries(es, with_state("V1", V1_INITIAL_KEY))

RECURSIVE EntryHeadersSize(_)
EntryHeadersSize(es) ==
    IF es = <<>> THEN 0 ELSE 16 + Len(Head(es).archive_name) + EntryHeadersSize(Tail(es))

\* offsets that do not advance by the payload lengths
EntryOffsetsRepeated(es, current_offset) == [i \in 1..Len(es) |-> current_offset]

\* first pass of write_v3: the offset of every payload
RECURSIVE EntryOffsets(_, _)
EntryOffsets(es, current_offset) ==
    IF es = <<>> THEN <<>>
    ELSE <<current_offset>> \o EntryOffsets(Tail(es), current_offset + Len(Head(es).data))

FirstOffsetNoTerminator(es) == (8 + 4) + EntryHeadersSize(es)

\* offset of the first payload: magic and version, seed, entry headers, terminator
FirstOffset(es) == (8 + 4) + EntryHeadersSize(es) + 4

\* initial_key.wrapping_mul(current_offset as u32 + 1)
FileKey(initial_key, current_offset) == WrappingMulAdd(initial_key, current_offset + 1, 0)

RECURSIVE WriteV3Headers(_, _, _, _, _)
WriteV3Headers(es, offs, initial_key, k, i) ==
    IF i > Len(es)
    THEN decrypt_int(k, ToLE(0)).out
    ELSE LET e     == es[i]
             off   == decrypt_int(k, ToLE(offs[i]))
             size  == decrypt_int(off.key, ToLE(Len(e.data)))
             fkey  == decrypt_int(size.key, FileKey(initial_key, offs[i]))
             nlen  == decrypt_int(fkey.key, ToLE(Len(e.archive_name)))
             name  == decrypt_string_v3(nlen.key, e.archive_name)
         IN  off.out \o size.out \o fkey.out \o nlen.out \o name
                 \o WriteV3Headers(es, offs, initial_key, nlen.key, i + 1)

RECURSIVE WriteV3Data(_, _, _, _)
WriteV3Data(es, offs, initial_key, i) ==
    IF i > Len(es) THEN <<>>
    ELSE decrypt_content(with_state("V3", FileKey(initial_key, offs[i])), es[i].data).out
             \o WriteV3Data(es, offs, initial_key, i + 1)

\* RgssWriter::write_v3 with the initial key already chosen
write_v3(v, es, initial_key) ==
    LET offs == EntryOffsets(es, FirstOffset(es))
    IN  MAGIC \o <<header_byte(v)>> \o initial_key
            \o WriteV3Headers(es, offs, initial_key, step(with_state("V3", initial_key)), 1)
            \o WriteV3Data(es, offs, initial_key, 1)

(***************************************************************************)
(* RgssVersion::detect and RgssReader                                      *)
(***************************************************************************)
\* read_exact of n bytes at position pos (0-based) succeeds
CanRead(f, pos, n) == pos + n <= Len(f)

ReadAt(f, pos, n) == SubSeq(f, pos + 1, pos + n)

detect_from_file(f) ==
    IF ~CanRead(f, 0, 8) THEN [ok |-> FALSE, err |-> "Io"]
    ELSE IF ReadAt(f, 0, 7) # MAGIC THEN [ok |-> FALSE, err |-> "InvalidFormat"]
    ELSE IF f[8] = 1 THEN [ok |-> TRUE, version |-> "V1"]
    ELSE IF f[8] = 3 THEN [ok |-> TRUE, version |-> "V3"]
    ELSE [ok |-> FALSE, err |-> "UnsupportedVersion"]

\* the sanity limit on a V1 name length
MAX_NAME_LEN == 1024

\* a decrypted u32 whose two top bytes are zero, as a number
IsSmallU32(b) == b[3] = 0 /\ b[4] = 0
SmallU32(b) == b[1] + (256 * b[2])

\* name_len > 1024 alone: a reader that takes a name length of zero
NameLenOverLimit(b) ==
    \/ ~IsSmallU32(b)
    \/ SmallU32(b) > MAX_NAME_LEN

\* name_len == 0 || name_len > 1024
NameLenRejected(b) ==
    \/ ~IsSmallU32(b)
    \/ SmallU32(b) = 0
    \/ SmallU32(b) > MAX_NAME_LEN

\* position after seek(SeekFrom::Current(size)): any position past the end of
\* the file behaves alike
SeekCurrent(f, pos, size) ==
    IF IsSmallU32(size) THEN pos + SmallU32(size) ELSE Len(f) + 1

RECURSIVE ReadV1Loop(_, _, _, _)
ReadV1Loop(f, pos, k, acc) ==
    IF pos >= Len(f) THEN acc
    ELSE IF ~CanRead(f, pos, 4) THEN acc
    ELSE LET len == decrypt_int(k, ReadAt(f, pos, 4))
         IN  IF NameLenRejected(len.out) THEN acc
             ELSE LET name_len == SmallU32(len.out)
                  IN  IF ~CanRead(f, pos + 4, name_len) THEN acc
                      ELSE LET name == decrypt_string_v1(len.key, ReadAt(f, pos + 4, name_len))
                               p2   == pos + 4 + name_len
                           IN  IF ~CanRead(f, p2, 4) THEN acc
                               ELSE LET size == decrypt_int(name.key, ReadAt(f, p2, 4))
                                        offset == p2 + 4
                                    IN  ReadV1Loop(f, SeekCurrent(f, offset, size.out), size.key,
                                                   Append(acc, [name |-> name.out,
                                                                size |-> size.out,
                                                                offset |-> offset,
                                                                key |-> size.key.state]))

\* RgssReader::read_v1
read_v1(f) == [ok |-> TRUE, entries |-> ReadV1Loop(f, 8, with_state("V1", V1_INITIAL_KEY), <<>>)]

\* a V3 offset is a file position; one that does not fit the model's numbers
\* is past the end of every file of the model
OffsetOf(f, b) == IF IsSmallU32(b) THEN SmallU32(b) ELSE Len(f) + 1

RECURSIVE ReadV3Loop(_, _, _, _)
ReadV3Loop(f, pos, k, acc) ==
    IF ~CanRead(f, pos, 4) THEN [ok |-> TRUE, entries |-> acc]
    ELSE LET off == decrypt_int(k, ReadAt(f, pos, 4))
         IN  IF off.out = ToLE(0) THEN [ok |-> TRUE, entries |-> acc]
             ELSE IF ~CanRead(f, pos + 4, 12) THEN [ok |-> FALSE, err |-> "Io"]
             ELSE LET size == decrypt_int(off.key, ReadAt(f, pos + 4, 4))
                      fkey == decrypt_int(size.key, ReadAt(f, pos + 8, 4))
                      nlen == decrypt_int(fkey.key, ReadAt(f, pos + 12, 4))
                  IN  IF ~IsSmallU32(nlen.out) \/ ~CanRead(f, pos + 16, SmallU32(nlen.out))
                      THEN [ok |-> FALSE, err |-> "Io"]
                      ELSE LET n == SmallU32(nlen.out)
                               name == decrypt_string_v3(nlen.key, ReadAt(f, pos + 16, n))
                           IN  ReadV3Loop(f, pos + 16 + n, nlen.key,
                                          Append(acc, [name |-> name,
                                                       size |-> size.out,
                                                       offset |-> OffsetOf(f, off.out),
                                                       key |-> fkey.out]))

\* RgssReader::read_v3
read_v3(f) ==
    IF ~CanRead(f, 8, 4) THEN [ok |-> FALSE, err |-> "Io"]
    ELSE ReadV3Loop(f, 12, step(with_state("V3", ReadAt(f, 8, 4))), <<>>)

\* RgssReader::open
open(f) ==
    LET d == detect_from_file(f)
    IN  IF ~d.ok THEN d
        ELSE LET r == IF d.version = "V1" THEN read_v1(f) ELSE read_v3(f)
             IN  IF ~r.ok THEN r
                 ELSE [ok |-> TRUE, version |-> d.version, entries |-> r.entries]

\* RgssReader::extract_to_memory
extract_to_memory(f, v, entry) ==
    IF ~IsSmallU32(entry.size) \/ ~CanRead(f, entry.offset, SmallU32(entry.size))
    THEN [ok |-> FALSE, err |-> "Io"]
    ELSE [ok |-> TRUE,
          data |-> decrypt_content(with_state(v, entry.key),
                                   ReadAt(f, entry.offset, SmallU32(entry.size))).out]

(***************************************************************************)
(* Packing and unpacking an archive                                        *)
(***************************************************************************)
KeyIdle ==
    /\ key = RgssKeyNew("V1") /\ buf = <<>> /\ buf0 = <<>>
    /\ kval = ToLE(0) /\ klog = <<>>

\* the archive name of n bytes the model adds: "A", "A/", "A/A", ... ('A' is 65)
NameOfLen(n) == [i \in 1..n |-> IF i % 2 = 1 THEN 65 ELSE SLASH]

ArchiveNames == { NameOfLen(n) : n \in 0..MaxNameLen }

\* the payloads of the model: n bytes of a pattern without period 4
FileDatas == { Payload(n, 165) : n \in 0..MaxDataLen }

\* RgssWriter::for_version
ArchInit ==
    /\ version \in Versions
    /\ entries = <<>>
    /\ v3_initial_key = <<>>
    /\ file = <<>>
    /\ rd = [ok |-> FALSE, err |-> "NotOpened"]
    /\ extracted = <<>>
    /\ apc = "adding"
    /\ KeyIdle
    /\ PageIdle /\ TypeIdle

\* RgssWriter::with_v3_key, called on the fresh writer
WithV3Key ==
    /\ apc = "adding" /\ entries = <<>> /\ v3_initial_key = <<>>
    /\ \E s \in Seeds : v3_initial_key' = s
    /\ UNCHANGED <<version, entries, file, rd, extracted, apc, keyVars, pageVars, typeVars>>

\* RgssWriter::add_file with the file's bytes already read
AddFile ==
    /\ apc = "adding" /\ Len(entries) < MaxEntries
    /\ \E archive_name \in ArchiveNames, data \in FileDatas :
           entries' = Append(entries, [archive_name |-> NormalizeName(archive_name),
                                       data |-> data])
    /\ UNCHANGED <<version, v3_initial_key, file, rd, extracted, apc, keyVars, pageVars, typeVars>>

\* RgssWriter::write for V1
WriteV1 ==
    /\ apc = "adding" /\ version = "V1"
    /\ file' = write_v1(version, entries)
    /\ apc' = "written"
    /\ UNCHANGED <<version, entries, v3_initial_key, rd, extracted, keyVars, pageVars, typeVars>>

\* RgssWriter::write for V3; a generated seed is (nanoseconds as u32) ^ mask,
\* which can be any u32
WriteV3 ==
    /\ apc = "adding" /\ version = "V3"
    /\ \E initial_key \in (IF v3_initial_key = <<>>
                           THEN { XorU32(seed, V3_SEED_MASK) : seed \in Seeds }
                           ELSE { v3_initial_key }) :
           file' = write_v3(version, entries, initial_key)
    /\ apc' = "written"
    /\ UNCHANGED <<version, entries, v3_initial_key, rd, extracted, keyVars, pageVars, typeVars>>

\* RgssReader::open on the written archive
Open ==
    /\ apc = "written"
    /\ rd' = open(file)
    /\ apc' = "opened"
    /\ UNCHANGED <<version, entries, v3_initial_key, file, extracted, keyVars, pageVars, typeVars>>

\* RgssReader::extract_to_memory of the next entry of the reader
ExtractToMemory ==
    /\ apc = "opened" /\ rd.ok /\ Len(extracted) < Len(rd.entries)
    /\ extracted' = Append(extracted,
                           extract_to_memory(file, rd.version, rd.entries[Len(extracted) + 1]))
    /\ UNCHANGED <<version, entries, v3_initial_key, file, rd, apc, keyVars, pageVars, typeVars>>

ArchNext ==
    \/ WithV3Key
    \/ AddFile
    \/ WriteV1
    \/ WriteV3
    \/ Open
    \/ ExtractToMemory

SpecArchive == ArchInit /\ [][ArchNext]_vars

\* the reader's entry table names the added entries, in insertion order, with
\* their sizes
TableMatches ==
    /\ rd.ok
    /\ Len(rd.entries) = Len(entries)
    /\ \A i \in 1..Len(entries) :
           /\ rd.entries[i].name = entries[i].archive_name
           /\ rd.entries[i].size = ToLE(Len(entries[i].data))

\* every payload extracted so far is the payload added at that position
PayloadsMatch ==
    /\ Len(extracted) <= Len(entries)
    /\ \A i \in 1..Len(extracted) : extracted[i].ok /\ extracted[i].data = entries[i].data

RoundTrips == TableMatches /\ PayloadsMatch

\* C4 (as stated): every sequence of additions written as V1 reads back with
\* the same names and sizes in order, and each payload extracts to its bytes.
C4_V1RoundTripAnyName == (apc = "opened" /\ version = "V1") => RoundTrips

\* every archive name has between 1 and 1024 bytes
NamesReadable ==
    \A i \in 1..Len(entries) :
        Len(entries[i].archive_name) >= 1 /\ Len(entries[i].archive_name) <= MAX_NAME_LEN

\* the V1 round trip of the additions whose archive names the reader accepts
V1RoundTripReadableNames == (apc = "opened" /\ version = "V1" /\ NamesReadable) => RoundTrips

\* two entries, the first with a payload that is not a multiple of the
\* keystream word and the second non-empty, were written as V1 and both
\* extracted
V1RoundTripReached ==
    /\ apc = "opened" /\ version = "V1" /\ NamesReadable
    /\ Len(entries) = 2 /\ Len(extracted) = 2
    /\ Len(entries[1].data) = 5 /\ Len(entries[2].data) > 0
    /\ Len(entries[1].archive_name) = 2
    /\ RoundTrips

\* C5: every sequence of additions and every initial seed, caller-supplied or
\* generated, written as V3 reads back with the same names and sizes in
\* insertion order and every payload extracts to the bytes added; the read
\* result is therefore the same whatever the seed.
C5_V3RoundTrip == (apc = "opened" /\ version = "V3") => RoundTrips

\* two entries were written as V3 under a generated seed and both extracted
C5_Witness ==
    /\ apc = "opened" /\ version = "V3" /\ v3_initial_key = <<>>
    /\ Len(entries) = 2 /\ Len(extracted) = 2
    /\ Len(entries[1].data) = 5 /\ Len(entries[2].data) > 0
    /\ Len(entries[1].archive_name) = 0 /\ Len(entries[2].archive_name) = 2
    /\ RoundTrips

\* the same, under a caller-supplied seed
C5_WitnessSupplied ==
    /\ apc = "opened" /\ version = "V3" /\ v3_initial_key = ToLE(0)
    /\ Len(entries) = 2 /\ Len(extracted) = 2
    /\ RoundTrips


(***************************************************************************)
(* The keystream object driven through its public operations               *)
(***************************************************************************)
Buffers == { Payload(n, p) : n \in 0..MaxBufLen, p \in Patterns }

\* the version and seed the key was last constructed with
KeyVersion == IF key.multiplier = 7 THEN "V1" ELSE "V3"

KeyInit ==
    /\ \E v \in Versions, s \in Seeds : key = with_state(v, s)
    /\ buf \in Buffers
    /\ buf0 = buf
    /\ kval = ToLE(0)
    /\ klog = << [op |-> "with_state", state |-> key.state] >>
    /\ ArchIdle
    /\ PageIdle /\ TypeIdle

KeyCanAct == Len(klog) <= MaxOps

\* RgssKey::new(version)
KeyNew ==
    /\ KeyCanAct
    /\ \E v \in Versions : key' = RgssKeyNew(v)
    /\ klog' = Append(klog, [op |-> "new", state |-> key'.state])
    /\ UNCHANGED <<buf, buf0, kval, archVars, pageVars, typeVars>>

\* RgssKey::with_state(version, state): a fresh key of the same version
KeyWithState ==
    /\ KeyCanAct
    /\ \E s \in Seeds : key' = with_state(KeyVersion, s)
    /\ klog' = Append(klog, [op |-> "with_state", state |-> key'.state])
    /\ UNCHANGED <<buf, buf0, kval, archVars, pageVars, typeVars>>

\* RgssKey::step
KeyStep ==
    /\ KeyCanAct
    /\ key' = step(key)
    /\ klog' = Append(klog, [op |-> "step", state |-> key.state])
    /\ UNCHANGED <<buf, buf0, kval, archVars, pageVars, typeVars>>

\* RgssKey::decrypt_int / encrypt_int on the last value
KeyDecryptInt ==
    /\ KeyCanAct
    /\ kval' = decrypt_int(key, kval).out
    /\ key' = decrypt_int(key, kval).key
    /\ klog' = Append(klog, [op |-> "int", state |-> key.state])
    /\ UNCHANGED <<buf, buf0, archVars, pageVars, typeVars>>

\* RgssKey::decrypt_string_v1 / encrypt_string_v1 on the buffer
KeyDecryptStringV1 ==
    /\ KeyCanAct
    /\ buf' = decrypt_string_v1(key, buf).out
    /\ key' = decrypt_string_v1(key, buf).key
    /\ klog' = Append(klog, [op |-> "string_v1", state |-> key.state])
    /\ UNCHANGED <<buf0, kval, archVars, pageVars, typeVars>>

\* RgssKey::decrypt_string_v3 / encrypt_string_v3 on the buffer
KeyDecryptStringV3 ==
    /\ KeyCanAct
    /\ buf' = decrypt_string_v3(key, buf)
    /\ key' = key
    /\ klog' = Append(klog, [op |-> "string_v3", state |-> key.state])
    /\ UNCHANGED <<buf0, kval, archVars, pageVars, typeVars>>

\* RgssKey::decrypt_content / encrypt_content on the buffer
KeyDecryptContent ==
    /\ KeyCanAct
    /\ buf' = decrypt_content(key, buf).out
    /\ key' = decrypt_content(key, buf).key
    /\ klog' = Append(klog, [op |-> "content", state |-> key.state])
    /\ UNCHANGED <<buf0, kval, archVars, pageVars, typeVars>>

KeyNext ==
    \/ KeyNew
    \/ KeyWithState
    \/ KeyStep
    \/ KeyDecryptInt
    \/ KeyDecryptStringV1
    \/ KeyDecryptStringV3
    \/ KeyDecryptContent

SpecKey == KeyInit /\ [][KeyNext]_vars

\* the log of a content pass under a fresh key seeded s, followed by a second
\* content pass under another fresh key seeded s
TwoContentPasses ==
    /\ Len(klog) = 4
    /\ klog[1].op = "with_state" /\ klog[2].op = "content"
    /\ klog[3].op = "with_state" /\ klog[4].op = "content"
    /\ klog[3].state = klog[1].state
    /\ klog[2].state = klog[1].state
    /\ klog[4].state = klog[3].state

\* C6: for every version, seed s and byte sequence B, xor-content under a
\* fresh keystream seeded s applied to the result of xor-content under another
\* fresh keystream seeded s gives B back (encrypt and decrypt are inverse).
C6_ContentSymmetric == TwoContentPasses => buf = buf0

\* a buffer longer than one keystream word went through both passes and was
\* changed by the first one
C6_Witness ==
    /\ TwoContentPasses
    /\ Len(buf0) > 4
    /\ decrypt_content(with_state(KeyVersion, klog[1].state), buf0).out # buf0
    /\ buf = buf0

(***************************************************************************)
(* Strings                                                                 *)
(***************************************************************************)
\* the characters of the model: two letters, space, line feed and one
\* non-ASCII character (three bytes in UTF-8)
LF == "\n"
SP == " "
JA == "U+3042"

\* char::is_whitespace
IsWhitespace(c) == c \in {SP, LF}

\* char::is_ascii
IsAscii(c) == c # JA

\* char::len_utf8
Utf8Len(c) == IF IsAscii(c) THEN 1 ELSE 3

\* str::len, in bytes
RECURSIVE StrLen(_)
StrLen(s) == IF s = <<>> THEN 0 ELSE Utf8Len(Head(s)) + StrLen(Tail(s))

RECURSIVE TrimStart(_)
TrimStart(s) ==
    IF s = <<>> THEN <<>>
    ELSE IF IsWhitespace(Head(s)) THEN TrimStart(Tail(s)) ELSE s

RECURSIVE TrimEnd(_)
TrimEnd(s) ==
    IF s = <<>> THEN <<>>
    ELSE IF IsWhitespace(s[Len(s)]) THEN TrimEnd(SubSeq(s, 1, Len(s) - 1)) ELSE s

\* str::trim
Trim(s) == TrimEnd(TrimStart(s))

\* s.trim().is_empty()
IsBlank(s) == Trim(s) = <<>>

\* the pieces of s between occurrences of the character c (at least one piece)
RECURSIVE SplitOn(_, _)
SplitOn(s, c) ==
    IF \A i \in 1..Len(s) : s[i] # c THEN <<s>>
    ELSE LET i == CHOOSE j \in 1..Len(s) : s[j] = c /\ \A h \in 1..(j - 1) : s[h] # c
         IN  <<SubSeq(s, 1, i - 1)>> \o SplitOn(SubSeq(s, i + 1, Len(s)), c)

\* str::lines: split at line feeds, a final empty piece is not a line
Lines(s) ==
    LET pieces == SplitOn(s, LF)
    IN  IF pieces[Len(pieces)] = <<>> THEN SubSeq(pieces, 1, Len(pieces) - 1) ELSE pieces

\* [String]::join
RECURSIVE Join(_, _)
Join(ls, sep) ==
    IF ls = <<>> THEN <<>>
    ELSE IF Len(ls) = 1 THEN ls[1]
    ELSE ls[1] \o sep \o Join(Tail(ls), sep)

\* str::replace('\n', " ")
ReplaceLF(s) == [i \in 1..Len(s) |-> IF s[i] = LF THEN SP ELSE s[i]]

\* str::split_whitespace: the maximal runs of non-whitespace characters
RECURSIVE SplitWhitespace(_)
SplitWhitespace(s) ==
    LET t == TrimStart(s)
    IN  IF t = <<>> THEN <<>>
        ELSE IF \A i \in 1..Len(t) : ~IsWhitespace(t[i]) THEN <<t>>
        ELSE LET i == CHOOSE j \in 1..Len(t) :
                          IsWhitespace(t[j]) /\ \A h \in 1..(j - 1) : ~IsWhitespace(t[h])
             IN  <<SubSeq(t, 1, i - 1)>> \o SplitWhitespace(SubSeq(t, i + 1, Len(t)))

\* str::starts_with
StartsWith(s, prefix) ==
    Len(prefix) <= Len(s) /\ SubSeq(s, 1, Len(prefix)) = prefix

\* Option<T>: None is the empty sequence, Some(x) is <<x>>
None == <<>>
Some(x) == <<x>>

(***************************************************************************)
(* ExtractionOptions and InjectionOptions                                  *)
(***************************************************************************)
\* the script text prefix of the default options, "テキスト = "
SCRIPT_TEXT_PREFIX == <<JA, JA, JA, JA, SP, "=", SP>>

\* ExtractionOptions::default
DefaultExtractionOptions ==
    [trim_whitespace |-> FALSE,
     merge_dialogue_lines |-> TRUE,
     dialogue_line_separator |-> <<LF>>,
     extract_comments |-> TRUE,
     include_empty |-> FALSE,
     max_preceding_lines |-> 5,
     extract_script_text |-> TRUE,
     extract_plugins |-> TRUE,
     script_text_prefix |-> Some(SCRIPT_TEXT_PREFIX)]

\* ExtractionOptions::for_machine_translation
MachineTranslationOptions ==
    [trim_whitespace |-> TRUE,
     merge_dialogue_lines |-> TRUE,
     dialogue_line_separator |-> <<SP>>,
     extract_comments |-> FALSE,
     include_empty |-> FALSE,
     max_preceding_lines |-> 3,
     extract_script_text |-> TRUE,
     extract_plugins |-> TRUE,
     script_text_prefix |-> Some(SCRIPT_TEXT_PREFIX)]

\* InjectionOptions::default
DefaultInjectionOptions ==
    [max_line_length |-> None,
     word_aware_split |-> TRUE,
     preserve_line_breaks |-> TRUE,
     skip_missing_translations |-> TRUE]

\* InjectionOptions::with_max_line_length
with_max_line_length(o, length) == [o EXCEPT !.max_line_length = Some(length)]

\* cutting after every max_len characters, every character counted as one
RECURSIVE SplitEveryN(_, _)
SplitEveryN(text, max_len) ==
    IF Len(text) <= max_len THEN (IF text = <<>> THEN <<>> ELSE <<text>>)
    ELSE <<SubSeq(text, 1, max_len)>> \o SplitEveryN(SubSeq(text, max_len + 1, Len(text)), max_len)

\* InjectionOptions::split_at_chars
RECURSIVE SplitAtCharsLoop(_, _, _, _)
SplitAtCharsLoop(text, max_len, current, current_len) ==
    IF text = <<>> THEN (IF current # <<>> THEN <<current>> ELSE <<>>)
    ELSE LET c == Head(text)
             char_width == IF IsAscii(c) THEN 1 ELSE 2
         IN  IF current_len + char_width > max_len /\ current # <<>>
             THEN <<current>> \o SplitAtCharsLoop(Tail(text), max_len, <<c>>, char_width)
             ELSE SplitAtCharsLoop(Tail(text), max_len, Append(current, c),
                                   current_len + char_width)

split_at_chars(text, max_len) == SplitAtCharsLoop(text, max_len, <<>>, 0)

\* InjectionOptions::split_at_words
RECURSIVE SplitAtWordsLoop(_, _, _)
SplitAtWordsLoop(words, max_len, current_line) ==
    IF words = <<>> THEN (IF current_line # <<>> THEN <<current_line>> ELSE <<>>)
    ELSE LET word == Head(words)
         IN  IF current_line = <<>>
             THEN IF StrLen(word) > max_len
                  THEN split_at_chars(word, max_len)
                           \o SplitAtWordsLoop(Tail(words), max_len, <<>>)
                  ELSE SplitAtWordsLoop(Tail(words), max_len, word)
             ELSE IF StrLen(current_line) + 1 + StrLen(word) <= max_len
             THEN SplitAtWordsLoop(Tail(words), max_len, current_line \o <<SP>> \o word)
             ELSE <<current_line>> \o
                  (IF StrLen(word) > max_len
                   THEN split_at_chars(word, max_len)
                            \o SplitAtWordsLoop(Tail(words), max_len, <<>>)
                   ELSE SplitAtWordsLoop(Tail(words), max_len, word))

split_at_words(text, max_len) == SplitAtWordsLoop(SplitWhitespace(text), max_len, <<>>)

\* InjectionOptions::split_line
split_line(o, line, max_len) ==
    IF StrLen(line) <= max_len THEN <<line>>
    ELSE IF o.word_aware_split THEN split_at_words(line, max_len)
    ELSE split_at_chars(line, max_len)

RECURSIVE FlatMapSplitLine(_, _, _)
FlatMapSplitLine(o, ls, max_len) ==
    IF ls = <<>> THEN <<>>
    ELSE split_line(o, Head(ls), max_len) \o FlatMapSplitLine(o, Tail(ls), max_len)

\* InjectionOptions::split_text
split_text(o, text) ==
    IF o.max_line_length # None /\ o.max_line_length[1] > 0
    THEN IF o.preserve_line_breaks
         THEN FlatMapSplitLine(o, Lines(text), o.max_line_length[1])
         ELSE split_line(o, ReplaceLF(text), o.max_line_length[1])
    ELSE Lines(text)

(***************************************************************************)
(* JSON values, EventCommand, TranslationPath                              *)
(***************************************************************************)
\* serde_json::Value: strings, numbers, arrays and null are tagged records; an
\* object is a record of its keys
JStr(s) == [t |-> "string", v |-> s]
JNum(n) == [t |-> "number", n |-> n]
JArr(a) == [t |-> "array", a |-> a]
JNull == [t |-> "null"]

IsJStr(x) == x.t = "string"
IsJArr(x) == x.t = "array"

\* a command as it appears in a data file
JCmd(code, indent, parameters) ==
    [code |-> code, indent |-> indent, parameters |-> parameters]

\* a command object whose "indent" key is absent
JCmdNoIndent(code, parameters) == [code |-> code, parameters |-> parameters]

\* serde_json::from_value::<EventCommand> succeeds: the element is an object
\* with a "code"; "indent" and "parameters" are #[serde(default)]
Deserializes(e) == "code" \in DOMAIN e

FromValue(e) ==
    [code |-> e.code,
     indent |-> IF "indent" \in DOMAIN e THEN e.indent ELSE 0,
     parameters |-> IF "parameters" \in DOMAIN e THEN e.parameters ELSE <<>>]

\* parse_commands: elements that do not deserialize are filtered out
RECURSIVE parse_commands(_)
parse_commands(l) ==
    IF l = <<>> THEN <<>>
    ELSE IF Deserializes(Head(l)) THEN <<FromValue(Head(l))>> \o parse_commands(Tail(l))
    ELSE parse_commands(Tail(l))

\* commands_to_json: every command serializes to its three fields
commands_to_json(cmds) == [i \in 1..Len(cmds) |-> JCmd(cmds[i].code, cmds[i].indent,
                                                      cmds[i].parameters)]

\* EventCommand::dialogue
dialogue(indent, text) == [code |-> 401, indent |-> indent, parameters |-> <<JStr(text)>>]

\* EventCommand::get_string_param (index from 0)
HasStringParam(cmd, i) == i < Len(cmd.parameters) /\ IsJStr(cmd.parameters[i + 1])
StringParam(cmd, i) == cmd.parameters[i + 1].v

\* EventCommand::get_speaker_name
get_speaker_name(cmd) ==
    IF cmd.code # 101 THEN None
    ELSE IF Len(cmd.parameters) >= 5 /\ HasStringParam(cmd, 4) /\ StringParam(cmd, 4) # <<>>
    THEN Some(StringParam(cmd, 4))
    ELSE None

\* EventCommand::get_dialogue_text
get_dialogue_text(cmd) ==
    IF cmd.code # 401 THEN None
    ELSE IF HasStringParam(cmd, 0) THEN Some(StringParam(cmd, 0)) ELSE None

\* the strings of an array, in order (filter_map(|v| v.as_str()))
RECURSIVE StringsOf(_)
StringsOf(a) ==
    IF a = <<>> THEN <<>>
    ELSE IF IsJStr(Head(a)) THEN <<Head(a).v>> \o StringsOf(Tail(a))
    ELSE StringsOf(Tail(a))

\* EventCommand::get_choices
get_choices(cmd) ==
    IF cmd.code # 102 THEN None
    ELSE IF Len(cmd.parameters) >= 1 /\ IsJArr(cmd.parameters[1])
    THEN Some(StringsOf(cmd.parameters[1].a))
    ELSE None

\* EventCommand::get_choice_text
get_choice_text(cmd) ==
    IF cmd.code # 402 THEN None
    ELSE IF HasStringParam(cmd, 1) THEN Some(StringParam(cmd, 1)) ELSE None

\* EventCommand::get_comment_text
get_comment_text(cmd) ==
    IF cmd.code # 408 THEN None
    ELSE IF HasStringParam(cmd, 0) THEN Some(StringParam(cmd, 0)) ELSE None

\* EventCommand::get_script_special_text
get_script_special_text(cmd, prefix) ==
    IF cmd.code # 657 THEN None
    ELSE IF ~HasStringParam(cmd, 0) THEN None
    ELSE IF StartsWith(StringParam(cmd, 0), prefix)
    THEN Some(SubSeq(StringParam(cmd, 0), Len(prefix) + 1, Len(StringParam(cmd, 0))))
    ELSE None

\* usize as decimal text
DecimalTable == << "0", "1", "2", "3", "4", "5", "6", "7", "8", "9", "10", "11",
                   "12", "13", "14", "15", "16", "17", "18", "19", "20" >>
Decimal(n) == DecimalTable[n + 1]

\* a TranslationPath is the sequence of its segments as text
append_key(path, k) == Append(path, k)
append_index(path, i) == Append(path, Decimal(i))

\* TranslationPath::to_path_string: the segments joined by "."; the text is
\* kept as its sequence of pieces
RECURSIVE to_path_string(_)
to_path_string(path) ==
    IF path = <<>> THEN <<>>
    ELSE IF Len(path) = 1 THEN <<path[1]>>
    ELSE <<path[1], ".">> \o to_path_string(Tail(path))

\* TranslationPath::to_unit_id
to_unit_id(path, suffix) ==
    IF suffix = "" THEN to_path_string(path)
    ELSE to_path_string(path) \o <<"_", suffix>>

PathOnlyUnitId(path, idx, suffix) == to_unit_id(path, suffix)

\* handlers::generate_unit_id
generate_unit_id(path, idx, suffix) == to_unit_id(append_index(path, idx), suffix)

\* format!("{}_choice_{}", base_path.to_unit_id(""), i)
ChoiceUnitId(base_path, i) == to_unit_id(base_path, "") \o <<"_choice_", Decimal(i)>>

(***************************************************************************)
(* ExtractionContext, ExtractionResult, TranslationUnit                    *)
(***************************************************************************)
\* ExtractionContext::new(..).with_max_preceding_lines(max)
NewContext(max) ==
    [current_speaker |-> None,
     preceding_lines |-> <<>>,
     max_preceding_lines |-> max,
     unit_counter |-> 0]

\* ExtractionContext::set_speaker
set_speaker(ctx, speaker) == [ctx EXCEPT !.current_speaker = speaker]

\* ExtractionContext::add_preceding_line
add_preceding_line(ctx, line) ==
    IF ~IsBlank(line)
    THEN LET kept == IF Len(ctx.preceding_lines) >= ctx.max_preceding_lines
                          /\ ctx.preceding_lines # <<>>
                     THEN Tail(ctx.preceding_lines)
                     ELSE ctx.preceding_lines
         IN  [ctx EXCEPT !.preceding_lines = Append(kept, line)]
    ELSE ctx

\* TranslationUnit::new(..).with_speaker(..).with_context(..)
NewUnit(id, path, code, original, ctx, tags) ==
    [id |-> id, path |-> path, code |-> code, original |-> original,
     speaker |-> ctx.current_speaker,
     preceding_lines |-> ctx.preceding_lines,
     tags |-> tags]

\* ExtractionResult::empty / skip / single / multiple
ResultEmpty == [units |-> <<>>, consumed |-> 1, speaker_update |-> None,
                add_to_preceding |-> None]
ResultSkip(consumed) == [ResultEmpty EXCEPT !.consumed = consumed]
ResultMultiple(us, consumed) == [ResultEmpty EXCEPT !.units = us, !.consumed = consumed]
ResultSingle(u, consumed) == ResultMultiple(<<u>>, consumed)

(***************************************************************************)
(* Handlers: extract                                                       *)
(***************************************************************************)
ShowTextKeepsSpeaker(cmds, idx, list_path, ctx, opts) ==
    IF get_speaker_name(cmds[idx + 1]) = None THEN ResultEmpty
    ELSE [ResultEmpty EXCEPT !.speaker_update = Some(get_speaker_name(cmds[idx + 1]))]

\* ShowTextHandler::extract (101)
ShowTextExtract(cmds, idx, list_path, ctx, opts) ==
    [ResultEmpty EXCEPT !.speaker_update = Some(get_speaker_name(cmds[idx + 1]))]

RunIgnoringIndent(cmds, idx, indent, consumed) ==
    idx + consumed < Len(cmds) /\ cmds[idx + consumed + 1].code = 401

\* the loop condition of the dialogue handlers: the command at idx + consumed
\* exists, is a 401 and has the indent of the first one
RunContinues(cmds, idx, indent, consumed) ==
    /\ idx + consumed < Len(cmds)
    /\ cmds[idx + consumed + 1].code = 401
    /\ cmds[idx + consumed + 1].indent = indent

\* the collecting loop of DialogueHandler::extract
RECURSIVE DialogueCollect(_, _, _, _, _, _)
DialogueCollect(cmds, idx, indent, consumed, lines, opts) ==
    IF ~RunContinues(cmds, idx, indent, consumed)
    THEN [lines |-> lines, consumed |-> consumed]
    ELSE LET text == get_dialogue_text(cmds[idx + consumed + 1])
             line == IF opts.trim_whitespace THEN Trim(text[1]) ELSE text[1]
         IN  DialogueCollect(cmds, idx, indent, consumed + 1,
                             IF text # None THEN Append(lines, line) ELSE lines, opts)

\* usize::max
Max(a, b) == IF a >= b THEN a ELSE b

\* DialogueHandler::extract (401)
DialogueExtract(cmds, idx, list_path, ctx, opts) ==
    LET run == DialogueCollect(cmds, idx, cmds[idx + 1].indent, 0, <<>>, opts)
        merged_text == IF opts.merge_dialogue_lines
                       THEN Join(run.lines, opts.dialogue_line_separator)
                       ELSE Join(run.lines, <<LF>>)
    IN  IF run.lines = <<>>
           \/ ((\A i \in 1..Len(run.lines) : IsBlank(run.lines[i])) /\ ~opts.include_empty)
        THEN ResultSkip(Max(run.consumed, 1))
        ELSE [ResultSingle(NewUnit(generate_unit_id(list_path, idx, "dialogue"),
                                   append_index(list_path, idx), 401, merged_text, ctx, <<>>),
                           run.consumed)
                  EXCEPT !.add_to_preceding = Some(merged_text)]

\* the loop of ChoicesHandler::extract over the strings of the array
RECURSIVE ChoiceUnits(_, _, _, _, _)
ChoiceUnits(choices, i, base_path, ctx, opts) ==
    IF i >= Len(choices) THEN <<>>
    ELSE LET choice_text == choices[i + 1]
             text == IF opts.trim_whitespace THEN Trim(choice_text) ELSE choice_text
         IN  IF IsBlank(choice_text) /\ ~opts.include_empty
             THEN ChoiceUnits(choices, i + 1, base_path, ctx, opts)
             ELSE <<NewUnit(ChoiceUnitId(base_path, i),
                            append_index(append_index(append_key(base_path, "parameters"), 0), i),
                            102, text, ctx, <<>>)>>
                      \o ChoiceUnits(choices, i + 1, base_path, ctx, opts)

\* ChoicesHandler::extract (102)
ChoicesExtract(cmds, idx, list_path, ctx, opts) ==
    LET choices == get_choices(cmds[idx + 1])
    IN  IF choices = None THEN ResultEmpty
        ELSE ResultMultiple(ChoiceUnits(choices[1], 0, append_index(list_path, idx), ctx, opts), 1)

\* ChoiceBranchHandler::extract (402)
ChoiceBranchExtract(cmds, idx, list_path, ctx, opts) ==
    LET choice_text == get_choice_text(cmds[idx + 1])
    IN  IF choice_text = None THEN ResultEmpty
        ELSE IF IsBlank(choice_text[1]) /\ ~opts.include_empty THEN ResultEmpty
        ELSE ResultSingle(NewUnit(generate_unit_id(list_path, idx, "choice_branch"),
                                  append_index(list_path, idx), 402,
                                  IF opts.trim_whitespace THEN Trim(choice_text[1])
                                                          ELSE choice_text[1],
                                  ctx, <<>>), 1)

\* the comment skip prefix of the default options
SEMICOLON == ";"

\* ExtractionOptions::should_skip_comment with skip_comment_prefixes = [";"]
should_skip_comment(text) == StartsWith(text, <<SEMICOLON>>)

\* CommentHandler::extract (408)
CommentExtract(cmds, idx, list_path, ctx, opts) ==
    LET comment_text == get_comment_text(cmds[idx + 1])
    IN  IF ~opts.extract_comments THEN ResultEmpty
        ELSE IF comment_text = None THEN ResultEmpty
        ELSE IF should_skip_comment(comment_text[1]) THEN ResultEmpty
        ELSE IF IsBlank(comment_text[1]) /\ ~opts.include_empty THEN ResultEmpty
        ELSE ResultSingle([NewUnit(generate_unit_id(list_path, idx, "comment"),
                                   append_index(list_path, idx), 408,
                                   IF opts.trim_whitespace THEN Trim(comment_text[1])
                                                           ELSE comment_text[1],
                                   ctx, <<"comment">>)
                              EXCEPT !.speaker = None], 1)

\* ScriptTextHandler::extract (657), for a handler made by default_prefix()
ScriptTextExtract(cmds, idx, list_path, ctx, opts) ==
    LET prefix == IF opts.script_text_prefix # None THEN opts.script_text_prefix[1]
                  ELSE SCRIPT_TEXT_PREFIX
        text == get_script_special_text(cmds[idx + 1], prefix)
    IN  IF ~opts.extract_script_text THEN ResultEmpty
        ELSE IF text = None THEN ResultEmpty
        ELSE IF IsBlank(text[1]) /\ ~opts.include_empty THEN ResultEmpty
        ELSE ResultSingle([NewUnit(generate_unit_id(list_path, idx, "script_text"),
                                   append_index(list_path, idx), 657,
                                   IF opts.trim_whitespace THEN Trim(text[1]) ELSE text[1],
                                   ctx, <<"script_text">>)
                              EXCEPT !.speaker = None], 1)

\* the opcodes HandlerRegistry::with_defaults registers a handler for; the
\* command lists of the model hold no plugin command (357)
HandledCodes == {101, 401, 102, 402, 408}

\* HandlerRegistry::get(code).extract(..)
HandlerExtract(cmds, idx, list_path, ctx, opts) ==
    LET code == cmds[idx + 1].code
    IN  IF code = 101 THEN ShowTextExtract(cmds, idx, list_path, ctx, opts)
        ELSE IF code = 401 THEN DialogueExtract(cmds, idx, list_path, ctx, opts)
        ELSE IF code = 102 THEN ChoicesExtract(cmds, idx, list_path, ctx, opts)
        ELSE IF code = 402 THEN ChoiceBranchExtract(cmds, idx, list_path, ctx, opts)
        ELSE CommentExtract(cmds, idx, list_path, ctx, opts)

\* one iteration of the loop of EventPageParser::extract_from_commands
ExtractIteration(cmds, idx, list_path, ctx, us, opts) ==
    IF cmds[idx + 1].code \in HandledCodes
    THEN LET r    == HandlerExtract(cmds, idx, list_path, ctx, opts)
             ctx1 == IF r.speaker_update # None
                     THEN set_speaker(ctx, r.speaker_update[1]) ELSE ctx
             ctx2 == IF r.add_to_preceding # None
                     THEN add_preceding_line(ctx1, r.add_to_preceding[1]) ELSE ctx1
         IN  [units |-> us \o r.units, context |-> ctx2, index |-> idx + r.consumed]
    ELSE [units |-> us, context |-> ctx, index |-> idx + 1]

\* EventPageParser::extract_from_commands, the whole walk
RECURSIVE ExtractWalk(_, _, _, _, _, _)
ExtractWalk(cmds, idx, list_path, ctx, us, opts) ==
    IF idx >= Len(cmds) THEN us
    ELSE LET n == ExtractIteration(cmds, idx, list_path, ctx, us, opts)
         IN  ExtractWalk(cmds, n.index, list_path, n.context, n.units, opts)

\* EventPageParser::extract_from_list under a fresh context
extract_from_list(l, prefix, opts) ==
    ExtractWalk(parse_commands(l), 0, append_key(prefix, "list"),
                NewContext(opts.max_preceding_lines), <<>>, opts)

(***************************************************************************)
(* The page walker, extraction                                             *)
(***************************************************************************)
\* the texts of the model's command lists
TxA == <<"a">>
TxB == <<"b", JA>>
TxBlank == <<SP>>
NameA == <<"A">>

\* Show Text (101): face name, face index, background, position, speaker
ShowText(speaker) == JCmd(101, 0, <<JStr(<<>>), JNum(0), JNum(0), JNum(2), JStr(speaker)>>)

\* Show Choices (102): choices, default, cancel type, background, position
ShowChoices(choices) == JCmd(102, 0, <<JArr(choices), JNum(0), JNum(1), JNum(2), JNum(0)>>)

\* the elements a command list is drawn from in the extraction runs
ExtractElems ==
    { ShowText(NameA), ShowText(<<>>),
      JCmd(401, 0, <<JStr(TxA)>>), JCmd(401, 0, <<JStr(TxBlank)>>),
      JCmd(401, 1, <<JStr(TxB)>>), JCmd(401, 0, <<JNum(0)>>),
      ShowChoices(<<JStr(TxA), JStr(TxB)>>),
      JCmd(657, 0, <<JStr(SCRIPT_TEXT_PREFIX \o TxA)>>),
      JCmd(0, 0, <<>>), JNull }

\* all sequences over S of length at most n
SeqsUpTo(S, n) == UNION { [1..m -> S] : m \in 0..n }

\* the path of a common event (CommonEvents.json) and of a map event page
PagePaths == { <<"1">>, <<"events", "1", "pages", "0">> }

\* options with per-line extraction requested and empty text included
UnmergedOptions ==
    [DefaultExtractionOptions EXCEPT !.merge_dialogue_lines = FALSE, !.include_empty = TRUE]

ExtractionPresets == { DefaultExtractionOptions, MachineTranslationOptions, UnmergedOptions }

ExtractInit ==
    /\ KeyIdle /\ ArchIdle /\ TypeIdle
    /\ list \in SeqsUpTo(ExtractElems, MaxListLen)
    /\ list0 = list
    /\ path_prefix \in PagePaths
    /\ eoptions \in ExtractionPresets
    /\ commands = parse_commands(list)
    /\ index = 0
    /\ units = <<>>
    /\ prev_units = None
    /\ context = NewContext(eoptions.max_preceding_lines)
    /\ eresult = ResultEmpty
    /\ last = -1
    /\ ioptions = <<>> /\ translations = <<>> /\ result = <<>> /\ before = <<>>
    /\ ppc = "extract"

\* one iteration of the while loop of extract_from_commands
ExtractStep ==
    /\ ppc = "extract"
    /\ index < Len(commands)
    /\ LET list_path == append_key(path_prefix, "list")
           n == ExtractIteration(commands, index, list_path, context, units, eoptions)
       IN  /\ units' = n.units
           /\ context' = n.context
           /\ index' = n.index
           /\ eresult' = IF commands[index + 1].code \in HandledCodes
                         THEN HandlerExtract(commands, index, list_path, context, eoptions)
                         ELSE ResultEmpty
    /\ last' = index
    /\ UNCHANGED <<list, list0, path_prefix, commands, eoptions, ioptions, translations,
                   prev_units, result, before, ppc>>
    /\ UNCHANGED <<keyVars, archVars, typeVars>>

\* the loop ends and the units are returned
ExtractReturn ==
    /\ ppc = "extract"
    /\ index >= Len(commands)
    /\ ppc' = "returned"
    /\ UNCHANGED <<list, list0, path_prefix, commands, index, eoptions, ioptions,
                   translations, units, prev_units, context, result, eresult, last,
                   before>>
    /\ UNCHANGED <<keyVars, archVars, typeVars>>

\* extract_from_list is called a second time on the same list; the caller
\* passes the context it holds or a new one
ExtractAgain ==
    /\ ppc = "returned"
    /\ prev_units = None
    /\ prev_units' = Some(units)
    /\ units' = <<>>
    /\ commands' = parse_commands(list)
    /\ index' = 0
    /\ last' = -1
    /\ context' \in {context, NewContext(eoptions.max_preceding_lines)}
    /\ ppc' = "extract"
    /\ UNCHANGED <<list, list0, path_prefix, eoptions, ioptions, translations, result,
                   eresult, before>>
    /\ UNCHANGED <<keyVars, archVars, typeVars>>

ExtractNext == ExtractStep \/ ExtractReturn \/ ExtractAgain

SpecExtract == ExtractInit /\ [][ExtractNext]_vars

(***************************************************************************)
(* Properties of extraction                                                *)
(***************************************************************************)
ListPath == append_key(path_prefix, "list")
Extracting == ppc \in {"extract", "returned"}
UnitIds(us) == [i \in 1..Len(us) |-> us[i].id]

\* the text "<list-path>.k_role" and "<list-path>.k_choice_i"
ExpectedId(k, role) == to_path_string(ListPath) \o <<".", Decimal(k), "_", role>>
ExpectedChoiceId(k, i) == to_path_string(ListPath) \o <<".", Decimal(k), "_choice_", Decimal(i)>>

\* the ids a command at index k may give its units, by opcode
IdsOfCommand(k) ==
    IF commands[k + 1].code = 401 THEN {ExpectedId(k, "dialogue")}
    ELSE IF commands[k + 1].code = 102
    THEN {ExpectedChoiceId(k, i) : i \in 0..Len(commands[k + 1].parameters[1].a)}
    ELSE {}

\* C7: two runs of extract on the same list return the same unit ids in the
\* same order, and every id is the text built from the list path, the index
\* of a command and the role suffix, so that no two units share an id and no
\* id depends on the number of units produced before it.
C7_StableIds ==
    /\ (ppc = "returned" /\ prev_units # None) => UnitIds(units) = UnitIds(prev_units[1])
    /\ Extracting =>
          /\ \A i \in 1..Len(units) :
                \E k \in 0..(Len(commands) - 1) : units[i].id \in IdsOfCommand(k)
          /\ \A i, j \in 1..Len(units) : units[i].id = units[j].id => i = j

C7_Witness ==
    /\ ppc = "returned" /\ prev_units # None
    /\ Len(units) >= 3
    /\ \E i \in 1..Len(units) : units[i].code = 401
    /\ \E i \in 1..Len(units) : units[i].code = 102

\* command k is a 401 whose text is a string that is not blank
NonBlank401(cmds, k) ==
    /\ cmds[k + 1].code = 401
    /\ HasStringParam(cmds[k + 1], 0)
    /\ ~IsBlank(StringParam(cmds[k + 1], 0))

SameRun(cmds, k, j) == cmds[j + 1].code = 401 /\ cmds[j + 1].indent = cmds[k + 1].indent

\* length of the maximal run of 401 commands from k with the indent of k
MaxRun(cmds, k) ==
    CHOOSE n \in 1..(Len(cmds) - k) :
        /\ \A j \in k..(k + n - 1) : SameRun(cmds, k, j)
        /\ k + n < Len(cmds) => ~SameRun(cmds, k, k + n)

C8_WitnessSkip ==
    /\ Extracting /\ last >= 0
    /\ commands[last + 1].code = 401
    /\ eresult.units = <<>>
    /\ index = last + 1

\* index of the command a dialogue unit was extracted from
CommandOf(u) == CHOOSE k \in 0..(Len(commands) - 1) : append_index(ListPath, k) = u.path

\* the 101 commands before k, and those of them that name a speaker
ShowTextsBefore(k) == { j \in 0..(k - 1) : commands[j + 1].code = 101 }
NamedBefore(k) == { j \in ShowTextsBefore(k) : get_speaker_name(commands[j + 1]) # None }
Latest(S) == CHOOSE j \in S : \A h \in S : h <= j

\* C10 (as stated): a dialogue unit extracted after a 101 that names a speaker
\* carries the speaker of the last such 101 before it, whatever 101 commands
\* with an empty speaker lie in between.
C10_EmptySpeakerKeeps ==
    Extracting =>
        \A i \in 1..Len(units) :
            (units[i].code = 401 /\ NamedBefore(CommandOf(units[i])) # {}) =>
                units[i].speaker =
                    get_speaker_name(commands[Latest(NamedBefore(CommandOf(units[i]))) + 1])

\* C10 (amended): a dialogue unit extracted after a 101 carries the speaker of
\* the nearest 101 before it: the name when that 101 names one, no speaker
\* when its speaker parameter is the empty string.
C10_NearestShowText ==
    Extracting =>
        \A i \in 1..Len(units) :
            (units[i].code = 401 /\ ShowTextsBefore(CommandOf(units[i])) # {}) =>
                units[i].speaker =
                    get_speaker_name(commands[Latest(ShowTextsBefore(CommandOf(units[i]))) + 1])

\* a dialogue unit follows a 101 with an empty speaker that follows a 101
\* naming a speaker, and carries no speaker
C10_Witness ==
    /\ Extracting
    /\ \E i \in 1..Len(units) :
          /\ units[i].code = 401
          /\ NamedBefore(CommandOf(units[i])) # {}
          /\ Latest(ShowTextsBefore(CommandOf(units[i]))) \notin NamedBefore(CommandOf(units[i]))
          /\ units[i].speaker = None

(***************************************************************************)
(* Handlers: inject                                                        *)
(***************************************************************************)
\* InjectionResult::new
NewInjectionResult == [applied |-> 0, not_found |-> 0, commands_modified |-> 0,
                       warnings |-> <<>>]

\* InjectionResult::merge
merge(r, other) ==
    [applied |-> r.applied + other.applied,
     not_found |-> r.not_found + other.not_found,
     commands_modified |-> r.commands_modified + other.commands_modified,
     warnings |-> r.warnings \o other.warnings]

\* HashMap::get(..).is_some(): the map is a function from unit ids to texts
HasTranslation(trs, id) == id \in DOMAIN trs

\* ShowTextHandler::inject (101)
ShowTextInject(cmds, idx, trs, list_path, opts) ==
    [commands |-> cmds, result |-> NewInjectionResult]

\* the counting loop of DialogueHandler::inject
RECURSIVE OldCount(_, _, _, _)
OldCount(cmds, idx, indent, old_count) ==
    IF idx + old_count < Len(cmds)
       /\ ~(cmds[idx + old_count + 1].code # 401 \/ cmds[idx + old_count + 1].indent # indent)
    THEN OldCount(cmds, idx, indent, old_count + 1)
    ELSE old_count

SpliceKeepingOne(cmds, from, to, new) ==
    SubSeq(cmds, 1, from) \o new \o SubSeq(cmds, to, Len(cmds))

\* Vec::splice(from..to, new), positions from 0
Splice(cmds, from, to, new) ==
    SubSeq(cmds, 1, from) \o new \o SubSeq(cmds, to + 1, Len(cmds))

\* DialogueHandler::inject (401)
DialogueInject(cmds, idx, trs, list_path, opts) ==
    LET indent == cmds[idx + 1].indent
        old_count == OldCount(cmds, idx, indent, 0)
        unit_id == generate_unit_id(list_path, idx, "dialogue")
    IN  IF HasTranslation(trs, unit_id)
        THEN LET new_lines == split_text(opts, trs[unit_id])
                 new_commands == [i \in 1..Len(new_lines) |-> dialogue(indent, new_lines[i])]
             IN  [commands |-> Splice(cmds, idx, idx + old_count, new_commands),
                  result |-> [NewInjectionResult EXCEPT !.applied = 1,
                                                        !.commands_modified = old_count]]
        ELSE IF ~opts.skip_missing_translations
        THEN [commands |-> cmds,
              result |-> [NewInjectionResult EXCEPT !.not_found = 1,
                                                    !.warnings = <<unit_id>>]]
        ELSE [commands |-> cmds, result |-> NewInjectionResult]

\* ChoicesHandler::inject (102)
ChoicesInject(cmds, idx, trs, list_path, opts) ==
    LET cmd == cmds[idx + 1]
        base_path == append_index(list_path, idx)
    IN  IF cmd.parameters = <<>> THEN [commands |-> cmds, result |-> NewInjectionResult]
        ELSE IF IsJArr(cmd.parameters[1])
        THEN LET choices_array == cmd.parameters[1].a
                 hit == { i \in 1..Len(choices_array) :
                              HasTranslation(trs, ChoiceUnitId(base_path, i - 1)) }
                 new_array == [i \in 1..Len(choices_array) |->
                                  IF i \in hit THEN JStr(trs[ChoiceUnitId(base_path, i - 1)])
                                  ELSE choices_array[i]]
             IN  [commands |-> [cmds EXCEPT ![idx + 1].parameters[1] = JArr(new_array)],
                  result |-> [NewInjectionResult EXCEPT !.applied = Cardinality(hit),
                                                        !.commands_modified = 1]]
        ELSE [commands |-> cmds, result |-> NewInjectionResult]

\* ChoiceBranchHandler::inject (402)
ChoiceBranchInject(cmds, idx, trs, list_path, opts) ==
    LET unit_id == generate_unit_id(list_path, idx, "choice_branch")
    IN  IF HasTranslation(trs, unit_id) /\ Len(cmds[idx + 1].parameters) >= 2
        THEN [commands |-> [cmds EXCEPT ![idx + 1].parameters[2] = JStr(trs[unit_id])],
              result |-> [NewInjectionResult EXCEPT !.applied = 1, !.commands_modified = 1]]
        ELSE [commands |-> cmds, result |-> NewInjectionResult]

\* CommentHandler::inject (408)
CommentInject(cmds, idx, trs, list_path, opts) ==
    LET unit_id == generate_unit_id(list_path, idx, "comment")
    IN  IF HasTranslation(trs, unit_id) /\ cmds[idx + 1].parameters # <<>>
        THEN [commands |-> [cmds EXCEPT ![idx + 1].parameters[1] = JStr(trs[unit_id])],
              result |-> [NewInjectionResult EXCEPT !.applied = 1, !.commands_modified = 1]]
        ELSE [commands |-> cmds, result |-> NewInjectionResult]

\* HandlerRegistry::get(code).inject(..)
HandlerInject(cmds, idx, trs, list_path, opts) ==
    LET code == cmds[idx + 1].code
    IN  IF code = 101 THEN ShowTextInject(cmds, idx, trs, list_path, opts)
        ELSE IF code = 401 THEN DialogueInject(cmds, idx, trs, list_path, opts)
        ELSE IF code = 102 THEN ChoicesInject(cmds, idx, trs, list_path, opts)
        ELSE IF code = 402 THEN ChoiceBranchInject(cmds, idx, trs, list_path, opts)
        ELSE CommentInject(cmds, idx, trs, list_path, opts)

\* one iteration of the loop of EventPageParser::inject_to_commands
InjectIteration(cmds, idx, trs, list_path, opts) ==
    IF cmds[idx + 1].code \in HandledCodes
    THEN HandlerInject(cmds, idx, trs, list_path, opts)
    ELSE [commands |-> cmds, result |-> NewInjectionResult]

(***************************************************************************)
(* The page walker, injection                                              *)
(***************************************************************************)
TxX == <<"x">>
TxXY == <<"x", LF, "y">>
TxWords == <<"x", SP, "y", JA>>

\* the elements a command list is drawn from in the injection runs
InjectElems ==
    { JCmd(401, 0, <<JStr(TxA)>>), JCmd(401, 0, <<JStr(<<>>)>>),
      JCmd(401, 1, <<JStr(TxB)>>),
      ShowChoices(<<JStr(TxA), JStr(TxB)>>),
      ShowChoices(<<JNum(0), JStr(TxA)>>),
      JCmd(402, 0, <<JNum(0), JStr(TxA)>>),
      JCmd(408, 0, <<JStr(TxA)>>),
      JCmdNoIndent(102, <<JArr(<<JStr(TxA)>>)>>),
      JCmd(0, 0, <<>>), JNull }

\* the translated texts of the model
TransTexts == { TxX, TxXY, TxWords, <<>> }

IdsOf(us) == { us[i].id : i \in 1..Len(us) }
OriginalOf(us, id) == us[CHOOSE i \in 1..Len(us) : us[i].id = id].original

\* the map that sends the id of every unit to the unit's own original text
IdentityMap(us) == [id \in IdsOf(us) |-> OriginalOf(us, id)]

\* the maps of the model: no translation, every unit to its own text, every
\* unit to one translated text
TranslationMaps(us) ==
    { [id \in {} |-> <<>>], IdentityMap(us) } \cup { [id \in IdsOf(us) |-> t] : t \in TransTexts }

InjectionPresets ==
    { DefaultInjectionOptions,
      with_max_line_length(DefaultInjectionOptions, 3),
      [DefaultInjectionOptions EXCEPT !.skip_missing_translations = FALSE] }

\* a list of a map event page has been extracted under eoptions; a translation
\* map over the ids of its units is injected
InjectInitOver(elems, max_len) ==
    /\ KeyIdle /\ ArchIdle /\ TypeIdle
    /\ list \in SeqsUpTo(elems, max_len)
    /\ list0 = list
    /\ path_prefix = <<"events", "1", "pages", "0">>
    /\ eoptions \in { DefaultExtractionOptions, MachineTranslationOptions }
    /\ units = extract_from_list(list, path_prefix, eoptions)
    /\ prev_units = None
    /\ translations \in TranslationMaps(units)
    /\ ioptions \in InjectionPresets
    /\ commands = parse_commands(list)
    /\ before = commands
    /\ index = 0
    /\ last = -1
    /\ context = NewContext(5)
    /\ result = NewInjectionResult
    /\ eresult = ResultEmpty
    /\ ppc = "inject"

InjectInit == InjectInitOver(InjectElems, MaxInjectLen)

\* a loop whose test is index <= commands.len(): past the end no handler runs
InjectStepPastEnd ==
    /\ ppc = "inject"
    /\ index <= Len(commands)
    /\ LET r == IF index < Len(commands)
                THEN InjectIteration(commands, index, translations,
                                     append_key(path_prefix, "list"), ioptions)
                ELSE [commands |-> commands, result |-> NewInjectionResult]
       IN  /\ commands' = r.commands
           /\ result' = merge(result, r.result)
    /\ before' = commands
    /\ last' = index
    /\ index' = index + 1
    /\ UNCHANGED <<list, list0, path_prefix, eoptions, ioptions, translations, units,
                   prev_units, context, eresult, ppc>>
    /\ UNCHANGED <<keyVars, archVars, typeVars>>

\* one iteration of the while loop of inject_to_commands
InjectStep ==
    /\ ppc = "inject"
    /\ index < Len(commands)
    /\ LET r == InjectIteration(commands, index, translations,
                                append_key(path_prefix, "list"), ioptions)
       IN  /\ commands' = r.commands
           /\ result' = merge(result, r.result)
    /\ before' = commands
    /\ last' = index
    /\ index' = index + 1
    /\ UNCHANGED <<list, list0, path_prefix, eoptions, ioptions, translations, units,
                   prev_units, context, eresult, ppc>>
    /\ UNCHANGED <<keyVars, archVars, typeVars>>

\* the loop ends: inject_to_list writes the commands back when any was modified
InjectEnd ==
    /\ ppc = "inject"
    /\ index >= Len(commands)
    /\ list' = IF result.commands_modified > 0 THEN commands_to_json(commands) ELSE list
    /\ ppc' = "done"
    /\ UNCHANGED <<list0, path_prefix, commands, index, eoptions, ioptions, translations,
                   units, prev_units, context, result, eresult, last, before>>
    /\ UNCHANGED <<keyVars, archVars, typeVars>>

InjectNext == InjectStep \/ InjectEnd

SpecInject == InjectInit /\ [][InjectNext]_vars

(***************************************************************************)
(* Properties of injection                                                 *)
(***************************************************************************)
\* C1 (as stated): injecting the map that sends every extracted id to the
\* unit's own original text leaves the command list equal to the one read.
C1_IdentityRoundTrip ==
    (ppc = "done" /\ translations = IdentityMap(units)) => list = list0

\* C2 (as stated): injection with an empty translation map leaves the command
\* list equal to the one read: no element is dropped, added or altered.
C2_EmptyMapFrame ==
    (ppc = "done" /\ DOMAIN translations = {}) => list = list0

\* number of commands the walker of extraction consumes at idx
Stride(cmds, idx) ==
    IF cmds[idx + 1].code = 401 THEN Max(OldCount(cmds, idx, cmds[idx + 1].indent, 0), 1)
    ELSE 1

\* the block at idx rewritten by its own handler, under the ids of the list
\* as it was extracted
RewrittenBlock(cmds, idx) ==
    LET r == InjectIteration(cmds, idx, translations, ListPath, ioptions).commands
    IN  SubSeq(r, idx + 1, idx + Stride(cmds, idx) + Len(r) - Len(cmds))

\* every block of the extracted list rewritten in place, the others kept
RECURSIVE BlockwiseInject(_, _)
BlockwiseInject(cmds, idx) ==
    IF idx >= Len(cmds) THEN <<>>
    ELSE RewrittenBlock(cmds, idx) \o BlockwiseInject(cmds, idx + Stride(cmds, idx))

\* C3 (as stated): with two or more units and a map keyed by the ids extract
\* returned, injection writes every translation into the commands its unit
\* was extracted from; the rewrite of a run is a splice of that block only.
C3_BlockwiseInject ==
    (ppc = "done" /\ Len(units) >= 2 /\ DOMAIN translations = IdsOf(units)) =>
        commands = BlockwiseInject(parse_commands(list0), 0)

\* C9: when the map holds a translation t for the run starting at the index
\* the walker is at, dialogue inject replaces the run by one 401 command per
\* line of t, each at the indent of the run and in line order; the commands
\* before the run and after it are unchanged and keep their order.
C9_RunReplaced ==
    (ppc \in {"inject", "done"} /\ last >= 0 /\ before[last + 1].code = 401
        /\ HasTranslation(translations, ExpectedId(last, "dialogue"))) =>
        LET t == translations[ExpectedId(last, "dialogue")]
            lines == split_text(ioptions, t)
            n == MaxRun(before, last)
            d == Len(lines) - n
        IN  /\ ioptions.max_line_length = None => lines = Lines(t)
            /\ Len(commands) = Len(before) + d
            /\ \A j \in 1..last : commands[j] = before[j]
            /\ \A j \in 1..Len(lines) :
                  commands[last + j] =
                      [code |-> 401, indent |-> before[last + 1].indent,
                       parameters |-> <<JStr(lines[j])>>]
            /\ \A j \in (last + n + 1)..Len(before) : commands[j + d] = before[j]

\* a run with commands before and after it has been replaced by the commands
\* of a translation with another number of lines
C9_Witness ==
    /\ ppc \in {"inject", "done"} /\ last >= 1 /\ before[last + 1].code = 401
    /\ HasTranslation(translations, ExpectedId(last, "dialogue"))
    /\ last + MaxRun(before, last) < Len(before)
    /\ Len(commands) > Len(before)

\* a run of two lines has been replaced by the one line of its translation
C9_WitnessShrink ==
    /\ ppc \in {"inject", "done"} /\ last >= 0 /\ before[last + 1].code = 401
    /\ HasTranslation(translations, ExpectedId(last, "dialogue"))
    /\ MaxRun(before, last) = 2
    /\ Len(commands) = Len(before) - 1
\* the texts of the run of 401 commands from k, as the options present them
RunLine(cmds, j) ==
    IF eoptions.trim_whitespace THEN Trim(StringParam(cmds[j + 1], 0))
    ELSE StringParam(cmds[j + 1], 0)
RunLines(cmds, k) == [j \in 1..MaxRun(cmds, k) |-> RunLine(cmds, k + j - 1)]
AllNonBlank(cmds, k) == \A j \in k..(k + MaxRun(cmds, k) - 1) : NonBlank401(cmds, j)

\* C11 (as stated): on a run of n non-blank 401 lines the walker gets n units,
\* one per line, when merging is disabled, and a single unit whose original
\* is the lines joined by the configured separator when it is enabled.
C11_MergeSetting ==
    (Extracting /\ last >= 0 /\ commands[last + 1].code = 401
        /\ AllNonBlank(commands, last)) =>
        IF eoptions.merge_dialogue_lines
        THEN /\ Len(eresult.units) = 1
             /\ eresult.units[1].original =
                    Join(RunLines(commands, last), eoptions.dialogue_line_separator)
        ELSE /\ Len(eresult.units) = MaxRun(commands, last)
             /\ \A j \in 1..Len(eresult.units) :
                   eresult.units[j].original = RunLines(commands, last)[j]

\* C12 (as stated): with extract_script_text enabled, the walk over a list
\* with a 657 command at index k whose parameter 0 starts with the configured
\* prefix returns the unit <list-path>.k_script_text whose original is the
\* remainder after the prefix.
C12_ScriptTextWalk ==
    ppc = "returned" =>
        \A k \in 0..(Len(commands) - 1) :
            LET r == ScriptTextExtract(commands, k, ListPath, context, eoptions)
            IN  (commands[k + 1].code = 657 /\ r.units # <<>>) =>
                    \E i \in 1..Len(units) :
                        /\ units[i].id = ExpectedId(k, "script_text")
                        /\ units[i].original = r.units[1].original

\* the injection step just taken was at a command that still sits where the
\* extraction saw it
StepAtExtracted(code) ==
    /\ ppc = "inject" /\ last >= 0
    /\ before[last + 1].code = code
    /\ last < Len(parse_commands(list0))
    /\ SubSeq(before, 1, last + 1) = SubSeq(parse_commands(list0), 1, last + 1)

\* the units whose id names choice i of the command at index k
ChoiceUnitsAt(k, i) ==
    { n \in 1..Len(units) : units[n].id = ChoiceUnitId(append_index(ListPath, k), i) }

\* C13 (as stated): the unit L.k_choice_i of a 102 command has as original the
\* text of element i of the choices array, and injection overwrites the
\* elements that have a translated unit and no other, whatever the array holds.
C13_ChoiceElement ==
    (StepAtExtracted(102) /\ before[last + 1].parameters # <<>>
        /\ IsJArr(before[last + 1].parameters[1])) =>
        LET a == before[last + 1].parameters[1].a
            b == commands[last + 1].parameters[1].a
        IN  /\ Len(b) = Len(a)
            /\ \A i \in 0..(Len(a) - 1) :
                  /\ \A n \in ChoiceUnitsAt(last, i) :
                        /\ IsJStr(a[i + 1])
                        /\ units[n].original =
                               (IF eoptions.trim_whitespace THEN Trim(a[i + 1].v)
                                ELSE a[i + 1].v)
                  /\ b[i + 1] =
                        (IF ChoiceUnitsAt(last, i) # {}
                               /\ HasTranslation(translations,
                                      ChoiceUnitId(append_index(ListPath, last), i))
                         THEN JStr(translations[ChoiceUnitId(append_index(ListPath, last), i)])
                         ELSE a[i + 1])

\* a path segment made by append_index, and the index it stands for
IsIndexSegment(seg) == \E n \in 0..(Len(DecimalTable) - 1) : Decimal(n) = seg
SegmentIndex(seg) == CHOOSE n \in 0..(Len(DecimalTable) - 1) : Decimal(n) = seg

\* TranslationPath::get below a command's "parameters" array: Value::get(idx)
\* on an array is the element, on anything else None
GetInParameters(rest, ps) ==
    IF rest = <<>> THEN TRUE
    ELSE IF ~IsIndexSegment(rest[1]) \/ SegmentIndex(rest[1]) >= Len(ps) THEN FALSE
    ELSE LET p == ps[SegmentIndex(rest[1]) + 1]
         IN  IF Len(rest) = 1 THEN TRUE
             ELSE /\ Len(rest) = 2
                  /\ IsJArr(p)
                  /\ IsIndexSegment(rest[2])
                  /\ SegmentIndex(rest[2]) < Len(p.a)

\* TranslationPath::get below a list element: Value::get(key) on an object is
\* the field when present, on anything else None
GetInElement(rest, e) ==
    IF rest = <<>> THEN TRUE
    ELSE IF IsIndexSegment(rest[1]) THEN FALSE
    ELSE IF rest[1] \in DOMAIN e /\ rest[1] = "parameters"
    THEN GetInParameters(Tail(rest), e.parameters)
    ELSE Len(rest) = 1 /\ rest[1] \in (DOMAIN e \cap {"code", "indent"})

\* TranslationPath::get on the tree of a file that holds the list l at the list
\* path: whether the path resolves, and the position in l of the element the
\* resolved value lies in (-1 when it is not inside an element)
path_get(path, list_path, l) ==
    IF Len(path) < Len(list_path) \/ SubSeq(path, 1, Len(list_path)) # list_path
    THEN [some |-> FALSE, element |-> -1]
    ELSE LET rest == SubSeq(path, Len(list_path) + 1, Len(path))
         IN  IF rest = <<>> THEN [some |-> TRUE, element |-> -1]
             ELSE IF ~IsIndexSegment(rest[1]) \/ SegmentIndex(rest[1]) >= Len(l)
             THEN [some |-> FALSE, element |-> -1]
             ELSE [some |-> GetInElement(Tail(rest), l[SegmentIndex(rest[1]) + 1]),
                   element |-> SegmentIndex(rest[1])]

\* the position in the file's list of the element that parse_commands turned
\* into the command at index k
RECURSIVE PositionInFile(_, _)
PositionInFile(l, k) ==
    IF Deserializes(Head(l))
    THEN IF k = 0 THEN 0 ELSE 1 + PositionInFile(Tail(l), k - 1)
    ELSE 1 + PositionInFile(Tail(l), k)

\* C14 (as stated): the path of every unit resolves in the file's tree, and the
\* value it resolves to lies in the command that produced the unit, also when
\* the list holds elements that are not well-formed commands.
C14_PathResolvesToProducer ==
    (Extracting /\ last >= 0) =>
        \A n \in 1..Len(eresult.units) :
            LET g == path_get(eresult.units[n].path, ListPath, list)
            IN  g.some /\ g.element = PositionInFile(list, last)

\* a parameter after injection differs from the one before only in leaves that
\* were strings
OnlyStringLeavesDiffer(old, new) ==
    \/ new = old
    \/ IsJStr(old) /\ IsJStr(new)
    \/ /\ IsJArr(old) /\ IsJArr(new) /\ Len(new.a) = Len(old.a)
       /\ \A i \in 1..Len(old.a) :
             new.a[i] = old.a[i] \/ (IsJStr(old.a[i]) /\ IsJStr(new.a[i]))

\* an element of the list after injection has the keys it had before, and
\* differs only in string leaves
SameShape(old, new) ==
    /\ DOMAIN new = DOMAIN old
    /\ Deserializes(old) =>
          /\ new.code = old.code
          /\ "indent" \in DOMAIN old => new.indent = old.indent
          /\ "parameters" \in DOMAIN old =>
                /\ Len(new.parameters) = Len(old.parameters)
                /\ \A p \in 1..Len(old.parameters) :
                      OnlyStringLeavesDiffer(old.parameters[p], new.parameters[p])

\* no element of the list is a dialogue line, so injection rewrites no block
NoDialogue(l) == \A j \in 1..Len(l) : Deserializes(l[j]) => l[j].code # 401

\* C15 (as stated, for lists without a dialogue block): after injection every
\* object of the list has the same set of keys as before, the list and every
\* array in it has the same length, and the only values that differ are leaves
\* that were strings before.
C15_NoFieldInserted ==
    (ppc = "done" /\ NoDialogue(list0)) =>
        /\ Len(list) = Len(list0)
        /\ \A j \in 1..Len(list0) : SameShape(list0[j], list[j])

(***************************************************************************)
(* The preceding-lines window of ExtractionContext                          *)
(***************************************************************************)
\* the lines handed to add_preceding_line
ContextLines == { TxA, TxB, TxBlank }

\* a context made with with_max_preceding_lines(K)
ContextInit ==
    /\ KeyIdle /\ ArchIdle /\ SplitIdle
    /\ list = <<>> /\ list0 = <<>> /\ path_prefix = <<>> /\ commands = <<>>
    /\ index = 0 /\ eoptions = <<>> /\ ioptions = <<>> /\ translations = <<>>
    /\ units = <<>> /\ prev_units = <<>> /\ result = <<>>
    /\ eresult = <<>> /\ last = -1 /\ before = <<>> /\ ppc = "idle"
    /\ context \in { NewContext(K) : K \in 0..MaxWindow }
    /\ added = <<>> /\ pattern = <<>> /\ regex = <<>> /\ subject = <<>>
    /\ matched = <<>> /\ tpc = "context"

AddPrecedingLine ==
    /\ tpc = "context"
    /\ Len(added) < MaxAdded
    /\ \E line \in ContextLines :
          /\ context' = add_preceding_line(context, line)
          /\ added' = Append(added, line)
    /\ UNCHANGED <<list, list0, path_prefix, commands, index, eoptions, ioptions,
                   translations, units, prev_units, result, eresult, last, before, ppc>>
    /\ UNCHANGED <<pattern, regex, subject, matched, tpc>>
    /\ UNCHANGED <<keyVars, archVars, splitVars, user_configs>>

ContextNext == AddPrecedingLine

SpecContext == ContextInit /\ [][ContextNext]_vars

NonBlankLine(line) == ~IsBlank(line)

\* the last n elements of s (all of s when it is shorter)
LastN(s, n) == IF Len(s) <= n THEN s ELSE SubSeq(s, Len(s) - n + 1, Len(s))

\* C16 (as stated): after any sequence of add_preceding_line calls on a context
\* with bound K >= 0 the window holds at most K lines, and they are the most
\* recently added non-blank lines in insertion order.
C16_WindowBounded ==
    tpc = "context" =>
        /\ Len(context.preceding_lines) <= context.max_preceding_lines
        /\ context.preceding_lines =
               LastN(SelectSeq(added, NonBlankLine), context.max_preceding_lines)

(***************************************************************************)
(* PathPattern                                                             *)
(***************************************************************************)
\* the characters regex::escape puts a backslash before
RegexMeta == { "\\", ".", "+", "*", "?", "(", ")", "|", "[", "]", "{", "}",
               "^", "$", "#", "&", "-", "~" }

\* regex::escape
RECURSIVE regex_escape(_)
regex_escape(s) ==
    IF s = <<>> THEN <<>>
    ELSE (IF Head(s) \in RegexMeta THEN <<"\\", Head(s)>> ELSE <<Head(s)>>)
             \o regex_escape(Tail(s))

\* str::replace: the occurrences of from, left to right, not overlapping
RECURSIVE Replace(_, _, _)
Replace(s, from, to) ==
    IF Len(s) < Len(from) THEN s
    ELSE IF SubSeq(s, 1, Len(from)) = from
    THEN to \o Replace(SubSeq(s, Len(from) + 1, Len(s)), from, to)
    ELSE <<Head(s)>> \o Replace(Tail(s), from, to)

\* the markers of a pattern, as written and as regex::escape leaves them
ARY == <<"|", "A", "R", "Y", "|">>
OBJ == <<"|", "O", "B", "J", "|">>
EscapedARY == <<"\\", "|", "A", "R", "Y", "\\", "|">>
EscapedOBJ == <<"\\", "|", "O", "B", "J", "\\", "|">>

\* PathPattern::compile_pattern: the text of the regex; Regex::new accepts
\* every text built this way
compile_pattern(p) ==
    Some(<<"^">>
         \o Replace(Replace(regex_escape(p), EscapedARY, <<"\\", "d", "+">>),
                    EscapedOBJ, <<"\\", "w", "+">>)
         \o <<"$">>)

\* the characters of the classes \d and \w among those of the model
DigitChars == { "0", "1" }
WordChars == DigitChars \cup { "a", "_", "m", "e", "s", "g" }
InClass(class, c) == IF class = "d" THEN c \in DigitChars ELSE c \in WordChars

\* the regex text re, which ends with the anchor "$", matches all of t
RECURSIVE MatchHere(_, _)
MatchHere(re, t) ==
    IF re = <<"$">> THEN t = <<>>
    ELSE IF Head(re) = "\\"
    THEN IF Len(re) >= 3 /\ re[2] \in {"d", "w"} /\ re[3] = "+"
         THEN \E n \in 1..Len(t) :
                  /\ \A i \in 1..n : InClass(re[2], t[i])
                  /\ MatchHere(SubSeq(re, 4, Len(re)), SubSeq(t, n + 1, Len(t)))
         ELSE /\ t # <<>> /\ t[1] = re[2]
              /\ MatchHere(SubSeq(re, 3, Len(re)), Tail(t))
    ELSE /\ t # <<>> /\ t[1] = Head(re)
         /\ MatchHere(Tail(re), Tail(t))

\* Regex::is_match for a regex text that starts with the anchor "^"
is_match(re, t) == MatchHere(Tail(re), t)

\* PathPattern::matches
matches(pat, re, path) == IF re # None THEN is_match(re[1], path) ELSE pat = path

\* the segments a pattern of the model is made of, and the patterns
PatternSegments == { <<"a">>, <<"1">>, ARY, OBJ }
PatternTexts ==
    { Join(segs, <<".">>) :
          segs \in UNION { [1..n -> PatternSegments] : n \in 1..MaxPatternSegments } }

\* the path texts handed to matches
PathChars == { "a", "1", ".", "_" }
PathTexts == UNION { [1..n -> PathChars] : n \in 0..MaxPathLen }

PatternInit ==
    /\ KeyIdle /\ ArchIdle /\ PageIdle /\ SplitIdle
    /\ added = <<>>
    /\ pattern \in PatternTexts
    /\ subject \in PathTexts
    /\ regex = None
    /\ matched = None
    /\ tpc = "pattern"

\* PathPattern::new
PatternNew ==
    /\ tpc = "pattern"
    /\ regex' = compile_pattern(pattern)
    /\ tpc' = "compiled"
    /\ UNCHANGED <<added, pattern, subject, matched>>
    /\ UNCHANGED <<keyVars, archVars, pageVars, splitVars, user_configs>>

\* PathPattern::matches
PatternMatches ==
    /\ tpc = "compiled"
    /\ matched' = Some(matches(pattern, regex, subject))
    /\ tpc' = "matched"
    /\ UNCHANGED <<added, pattern, regex, subject>>
    /\ UNCHANGED <<keyVars, archVars, pageVars, splitVars, user_configs>>

PatternNext == PatternNew \/ PatternMatches

SpecPattern == PatternInit /\ [][PatternNext]_vars

AllIn(seg, chars) == \A i \in 1..Len(seg) : seg[i] \in chars

\* a pattern segment matches a path segment as the wildcards are described:
\* |ARY| a decimal integer, |OBJ| an identifier that is not purely digits,
\* anything else itself
SegmentMatches(ps, seg) ==
    IF ps = ARY THEN seg # <<>> /\ AllIn(seg, DigitChars)
    ELSE IF ps = OBJ THEN seg # <<>> /\ AllIn(seg, WordChars) /\ ~AllIn(seg, DigitChars)
    ELSE ps = seg

SegmentwiseMatch(pat, path) ==
    LET ps == SplitOn(pat, ".")
        ss == SplitOn(path, ".")
    IN  /\ Len(ps) = Len(ss)
        /\ \A i \in 1..Len(ps) : SegmentMatches(ps[i], ss[i])

\* C17 (as stated): a compiled pattern matches a path exactly when both have
\* the same number of segments and each segment matches: |ARY| the decimal
\* integers, |OBJ| the identifiers that are not purely digits, a literal itself;
\* no wildcard spans a '.', and the match is anchored at both ends.
C17_WildcardSegments ==
    tpc = "matched" => matched = Some(SegmentwiseMatch(pattern, subject))

(***************************************************************************)
(* Properties of the V3 entry table                                        *)
(***************************************************************************)
\* the content-seeds the table of the opened archive records, in order
ContentSeeds == [i \in 1..Len(rd.entries) |-> rd.entries[i].key]

\* writing the added entries again under the seed in the file gives the file
Reproducible == file = write_v3(version, entries, ReadAt(file, 8, 4))

\* C20 (as stated): in a V3 archive written with two or more entries the
\* content-seeds recorded in the table are pairwise distinct, and writing the
\* same entries with the same initial seed records the same content-seeds.
C20_ContentSeedsDistinct ==
    (apc = "opened" /\ version = "V3" /\ rd.ok /\ Len(entries) >= 2) =>
        /\ Len(rd.entries) = Len(entries)
        /\ \A i, j \in 1..Len(rd.entries) : i # j => ContentSeeds[i] # ContentSeeds[j]
        /\ Reproducible

(***************************************************************************)
(* Opening a damaged archive                                               *)
(***************************************************************************)
\* the written file loses its tail: n bytes of it are left (n = Len(file) is
\* the whole file, which ends after the last payload)
Truncate ==
    /\ apc = "written"
    /\ \E n \in 8..Len(file) : file' = SubSeq(file, 1, n)
    /\ apc' = "truncated"
    /\ UNCHANGED <<version, entries, v3_initial_key, rd, extracted, keyVars, pageVars, typeVars>>

\* one of the upper three bytes of the first name-length field of a V1 file
\* is inverted
Corrupt ==
    /\ apc = "written" /\ version = "V1" /\ Len(file) >= 12
    /\ \E p \in 10..12 : file' = [file EXCEPT ![p] = XorByte(@, 255)]
    /\ apc' = "corrupted"
    /\ UNCHANGED <<version, entries, v3_initial_key, rd, extracted, keyVars, pageVars, typeVars>>

\* RgssReader::open on the damaged archive
OpenDamaged ==
    /\ apc \in {"truncated", "corrupted"}
    /\ rd' = open(file)
    /\ apc' = IF apc = "truncated" THEN "opened_truncated" ELSE "opened_corrupted"
    /\ UNCHANGED <<version, entries, v3_initial_key, file, extracted, keyVars, pageVars, typeVars>>

DamagedNext == ArchNext \/ Truncate \/ Corrupt \/ OpenDamaged

SpecDamaged == ArchInit /\ [][DamagedNext]_vars

\* the index of the V3 file is cut off before the end of the zero terminator
IndexCutOff == 12 <= Len(file) /\ Len(file) < FirstOffset(entries)

\* C18 (as stated): opening a V3 archive whose index is cut off before the
\* encrypted zero terminator fails with InvalidFormat, whichever field the cut
\* falls in; it never succeeds with a partial entry table.
C18_TruncatedIndexInvalidFormat ==
    (apc = "opened_truncated" /\ version = "V3" /\ IndexCutOff) =>
        (~rd.ok /\ rd.err = "InvalidFormat")

\* the number of entries of a V1 file of n bytes, written from es with the
\* first record at pos, whose record (name length, name, size) is whole and
\* names a non-empty name, counted up to the first that is not
RECURSIVE WholeRecords(_, _, _)
WholeRecords(es, pos, n) ==
    IF es = <<>> THEN 0
    ELSE IF Head(es).archive_name = <<>> THEN 0
    ELSE IF pos + 8 + Len(Head(es).archive_name) > n THEN 0
    ELSE 1 + WholeRecords(Tail(es),
                          pos + 8 + Len(Head(es).archive_name) + Len(Head(es).data), n)

\* the reader's table is the first c entries that were written
TableIsPrefix(c) ==
    /\ Len(rd.entries) = c
    /\ \A i \in 1..c :
          /\ rd.entries[i].name = entries[i].archive_name
          /\ rd.entries[i].size = ToLE(Len(entries[i].data))

\* C19: reading a V1 archive succeeds with the entries parsed so far when it
\* meets the end of the file after a full entry, a short read in a record, or
\* a decrypted name length of zero or above 1024; none of these is an error.
C19_V1StopsCleanly ==
    /\ (apc = "opened_truncated" /\ version = "V1") =>
          (rd.ok /\ TableIsPrefix(WholeRecords(entries, 8, Len(file))))
    /\ (apc = "opened_corrupted" /\ version = "V1") =>
          (rd.ok /\ rd.entries = <<>>)

\* the file ends inside the name-length field of the second record
C19_Witness ==
    /\ apc = "opened_truncated" /\ version = "V1" /\ Len(entries) = 2
    /\ WholeRecords(entries, 8, Len(file)) = 1
    /\ Len(file) = 8 + 8 + Len(entries[1].archive_name) + Len(entries[1].data) + 2
    /\ rd.ok /\ Len(rd.entries) = 1

\* the whole file was read to its end after the last of two full entries
C19_WitnessEndOfFile ==
    /\ apc = "opened_truncated" /\ version = "V1" /\ Len(entries) = 2
    /\ file = write_v1(version, entries)
    /\ rd.ok /\ Len(rd.entries) = 2

\* the first name length decrypts to more than 1024
C19_WitnessTooLong ==
    /\ apc = "opened_corrupted" /\ version = "V1" /\ Len(entries) = 2
    /\ entries[1].archive_name # <<>>
    /\ rd.ok /\ rd.entries = <<>>

\* a name length of zero stops the reader before the second entry
C19_WitnessZero ==
    /\ apc = "opened_truncated" /\ version = "V1" /\ Len(entries) = 2
    /\ entries[1].archive_name # <<>> /\ entries[2].archive_name = <<>>
    /\ file = write_v1(version, entries)
    /\ rd.ok /\ Len(rd.entries) = 1

(***************************************************************************)
(* Properties of the keystream                                             *)
(***************************************************************************)
\* the operation applied last
LastOp == klog[Len(klog)]

\* C21 (as stated): a keystream made by new(V1) has multiplier 7, accumulator 3
\* and initial state 0xDEADCAFE; one made by new(V3) has multiplier 9 and
\* accumulator 3.
C21_NewConstants ==
    LastOp.op = "new" =>
        \/ key.multiplier = 7 /\ key.accumulator = 3 /\ key.state = V1_INITIAL_KEY
        \/ key.multiplier = 9 /\ key.accumulator = 3

\* state * m + a modulo 2^32, computed on the two 16-bit halves of the state
LcgNext(b, m, a) ==
    LET lo == ((b[1] + (256 * b[2])) * m) + a
        hi == ((b[3] + (256 * b[4])) * m) + (lo \div 65536)
    IN  << lo % 256, (lo \div 256) % 256, hi % 256, (hi \div 256) % 256 >>

RECURSIVE LcgSteps(_, _, _, _)
LcgSteps(b, m, a, n) == IF n = 0 THEN b ELSE LcgSteps(LcgNext(b, m, a), m, a, n - 1)

\* the state n LCG steps after the state the last operation started from
StepsAfterLast(n) == LcgSteps(LastOp.state, key.multiplier, key.accumulator, n)

\* C22: each keystream operation advances the state by a fixed number of LCG
\* steps: step and xor-u32 by one, xor-string-v1 on n bytes by n, xor-content
\* on n bytes by floor(n/4), xor-string-v3 by none.
C22_StepCounts ==
    /\ LastOp.op \in {"step", "int"} => key.state = StepsAfterLast(1)
    /\ LastOp.op = "string_v1" => key.state = StepsAfterLast(Len(buf))
    /\ LastOp.op = "content" => key.state = StepsAfterLast(Len(buf) \div 4)
    /\ LastOp.op = "string_v3" => key.state = LastOp.state

\* a content pass over five bytes moved the state by one step
C22_Witness ==
    /\ LastOp.op = "content" /\ Len(buf) = 5
    /\ key.state = StepsAfterLast(1) /\ key.state # LastOp.state

\* a string pass of the V1 kind over three bytes moved the state by three steps
C22_WitnessStringV1 ==
    /\ LastOp.op = "string_v1" /\ Len(buf) = 3
    /\ key.state = StepsAfterLast(3) /\ key.state # StepsAfterLast(2)

(***************************************************************************)
(* Properties of the V3 offsets                                            *)
(***************************************************************************)
\* the bytes of the payloads from entry i to the last, which end the file
RECURSIVE PayloadBytesFrom(_)
PayloadBytesFrom(i) ==
    IF i > Len(entries) THEN 0 ELSE Len(entries[i].data) + PayloadBytesFrom(i + 1)

\* the bytes of the table rows up to entry i: 16 and the name for each
RECURSIVE TableBytesUpTo(_)
TableBytesUpTo(i) ==
    IF i = 0 THEN 0 ELSE 16 + Len(entries[i].archive_name) + TableBytesUpTo(i - 1)

\* C23: in every V3 archive the writer produces, the offset recorded for entry
\* i is the position where its payload starts in the file; the first is the
\* size of header, seed, table rows and end marker, each next one the previous
\* offset plus the previous payload's length.
C23_OffsetsSequential ==
    (apc = "opened" /\ version = "V3") =>
        /\ rd.ok /\ Len(rd.entries) = Len(entries)
        /\ \A i \in 1..Len(entries) :
              /\ rd.entries[i].offset = Len(file) - PayloadBytesFrom(i)
              /\ i = 1 => rd.entries[i].offset = 8 + 4 + TableBytesUpTo(Len(entries)) + 4
              /\ i > 1 => rd.entries[i].offset =
                              rd.entries[i - 1].offset + Len(entries[i - 1].data)

\* two entries with payloads of different positions were written and read back
C23_Witness ==
    /\ apc = "opened" /\ version = "V3" /\ rd.ok /\ Len(rd.entries) = 2
    /\ Len(entries[1].data) = 3 /\ Len(entries[2].data) = 5
    /\ Len(entries[1].archive_name) = 2
    /\ rd.entries[2].offset = rd.entries[1].offset + 3
    /\ rd.entries[2].offset = Len(file) - 5

(***************************************************************************)
(* Properties of injection: warnings, targets, termination                 *)
(***************************************************************************)
\* the indexes at which a dialogue run starts: a 401 that does not continue
\* a run of the same indent
RunStarts(cmds) ==
    { k \in 0..(Len(cmds) - 1) :
          /\ cmds[k + 1].code = 401
          /\ (k = 0 \/ cmds[k].code # 401 \/ cmds[k].indent # cmds[k + 1].indent) }

\* the runs of the list as extracted that have no translation in the map
MissingRuns ==
    { k \in RunStarts(parse_commands(list0)) :
          ~HasTranslation(translations, generate_unit_id(ListPath, k, "dialogue")) }

\* C24 (as stated): with skip_missing_translations off, injecting a list records
\* exactly one not-found warning for each dialogue run that has no translation
\* in the map, and none for a run that has one.
C24_OneWarningPerRun ==
    (ppc = "done" /\ ~ioptions.skip_missing_translations) =>
        /\ result.not_found = Cardinality(MissingRuns)
        /\ Len(result.warnings) = Cardinality(MissingRuns)

(***************************************************************************)
(* The script text handler (657), called at every index of a list          *)
(***************************************************************************)
\* ScriptTextHandler::inject (657); the prefix written is the literal of the
\* match in the handler, for every handler prefix and every option
ScriptTextInject(cmds, idx, trs, list_path, opts) ==
    LET unit_id == generate_unit_id(list_path, idx, "script_text")
    IN  IF HasTranslation(trs, unit_id) /\ cmds[idx + 1].parameters # <<>>
        THEN [commands |-> [cmds EXCEPT ![idx + 1].parameters[1] =
                                JStr(SCRIPT_TEXT_PREFIX \o trs[unit_id])],
              result |-> [NewInjectionResult EXCEPT !.applied = 1, !.commands_modified = 1]]
        ELSE [commands |-> cmds, result |-> NewInjectionResult]

\* a prefix a project configures instead of the default one
CustomPrefix == <<"T", SP, "=", SP>>
ScriptPrefixes == { SCRIPT_TEXT_PREFIX, CustomPrefix }

\* the 657 commands of the model under prefix p: two with the prefix, one
\* without it, one without parameters
ScriptElems(p) ==
    { JCmd(657, 0, <<JStr(p \o TxA)>>), JCmd(657, 0, <<JStr(p \o TxB)>>),
      JCmd(657, 0, <<JStr(TxA)>>), JCmd(657, 0, <<>>) }

\* HandlerRegistry::with_defaults registers no handler for 657, so the walker
\* never reaches this handler; the actions call it as its callers would, once
\* for every index of the list
ScriptInit ==
    /\ KeyIdle /\ ArchIdle /\ TypeIdle
    /\ \E p \in ScriptPrefixes :
          /\ list \in SeqsUpTo(ScriptElems(p), MaxScriptLen) \ {<<>>}
          /\ eoptions = [DefaultExtractionOptions EXCEPT !.script_text_prefix = Some(p)]
    /\ list0 = list
    /\ path_prefix = <<"events", "1", "pages", "0">>
    /\ units = <<>>
    /\ prev_units = None
    /\ translations = [id \in {} |-> <<>>]
    /\ ioptions = DefaultInjectionOptions
    /\ commands = parse_commands(list)
    /\ before = commands
    /\ index = 0
    /\ last = -1
    /\ context = NewContext(5)
    /\ result = NewInjectionResult
    /\ eresult = ResultEmpty
    /\ ppc = "script_extract"

ScriptExtractStep ==
    /\ ppc = "script_extract"
    /\ index < Len(commands)
    /\ eresult' = ScriptTextExtract(commands, index, ListPath, context, eoptions)
    /\ units' = units \o eresult'.units
    /\ index' = index + 1
    /\ UNCHANGED <<list, list0, path_prefix, commands, eoptions, ioptions, translations,
                   prev_units, context, result, last, before, ppc>>
    /\ UNCHANGED <<keyVars, archVars, typeVars>>

\* the units are translated: a map over their ids comes back
ScriptTranslate ==
    /\ ppc = "script_extract"
    /\ index >= Len(commands)
    /\ translations' \in TranslationMaps(units)
    /\ index' = 0
    /\ ppc' = "script_inject"
    /\ UNCHANGED <<list, list0, path_prefix, commands, eoptions, ioptions, units,
                   prev_units, context, result, eresult, last, before>>
    /\ UNCHANGED <<keyVars, archVars, typeVars>>

ScriptInjectStep ==
    /\ ppc = "script_inject"
    /\ index < Len(commands)
    /\ LET r == ScriptTextInject(commands, index, translations, ListPath, ioptions)
       IN  /\ commands' = r.commands
           /\ result' = merge(result, r.result)
    /\ before' = commands
    /\ last' = index
    /\ index' = index + 1
    /\ UNCHANGED <<list, list0, path_prefix, eoptions, ioptions, translations, units,
                   prev_units, context, eresult, ppc>>
    /\ UNCHANGED <<keyVars, archVars, typeVars>>

ScriptEnd ==
    /\ ppc = "script_inject"
    /\ index >= Len(commands)
    /\ list' = IF result.commands_modified > 0 THEN commands_to_json(commands) ELSE list
    /\ ppc' = "script_done"
    /\ UNCHANGED <<list0, path_prefix, commands, index, eoptions, ioptions, translations,
                   units, prev_units, context, result, eresult, last, before>>
    /\ UNCHANGED <<keyVars, archVars, typeVars>>

ScriptNext == ScriptExtractStep \/ ScriptTranslate \/ ScriptInjectStep \/ ScriptEnd

SpecScript == ScriptInit /\ [][ScriptNext]_vars

\* the prefix the extraction was configured with
ConfiguredPrefix == eoptions.script_text_prefix[1]

\* C25 (as stated): for every configured script-text prefix P, injecting a
\* translation t for a 657 unit sets parameter 0 to P followed by t, so the
\* unit's own original restores the parameter 0 that was read.
C25_PrefixRestored ==
    (ppc = "script_inject" /\ last >= 0
        /\ HasTranslation(translations, generate_unit_id(ListPath, last, "script_text"))) =>
        /\ commands[last + 1].parameters[1] =
               JStr(ConfiguredPrefix \o
                    translations[generate_unit_id(ListPath, last, "script_text")])
        /\ translations = IdentityMap(units) =>
               commands[last + 1] = parse_commands(list0)[last + 1]

(***************************************************************************)
(* Line splitting: InjectionOptions::split_text on every small text        *)
(***************************************************************************)
\* the characters a text is made of: a letter, a space, a line feed and a
\* non-ASCII character
SplitChars == { "a", SP, LF, JA }

\* InjectionOptions with a max line length from 1 to MaxLineLength, word-aware
\* or character splitting, line breaks preserved or not
SplitOptions ==
    { [with_max_line_length(DefaultInjectionOptions, m)
          EXCEPT !.word_aware_split = w, !.preserve_line_breaks = p] :
          m \in 1..MaxLineLength, w \in BOOLEAN, p \in BOOLEAN }

SplitInit ==
    /\ KeyIdle /\ ArchIdle /\ PageIdle
    /\ added = <<>> /\ pattern = <<>> /\ regex = <<>> /\ subject = <<>>
    /\ matched = <<>> /\ user_configs = <<>>
    /\ split_options \in SplitOptions
    /\ split_input \in SeqsUpTo(SplitChars, MaxTextLen)
    /\ split_lines = <<>>
    /\ tpc = "split"

SplitText ==
    /\ tpc = "split"
    /\ split_lines' = split_text(split_options, split_input)
    /\ tpc' = "split_done"
    /\ UNCHANGED <<added, pattern, regex, subject, matched, user_configs,
                   split_options, split_input>>
    /\ UNCHANGED <<keyVars, archVars, pageVars>>

SplitNext == SplitText

SpecSplit == SplitInit /\ [][SplitNext]_vars

\* the width split_at_chars counts: 1 for an ASCII character, 2 otherwise
RECURSIVE DisplayWidth(_)
DisplayWidth(s) ==
    IF s = <<>> THEN 0
    ELSE (IF IsAscii(Head(s)) THEN 1 ELSE 2) + DisplayWidth(Tail(s))

SplitMax == split_options.max_line_length[1]

\* C26 (as stated): for every text and every max line length M > 0, every
\* line split_text returns has width at most M.
C26_EveryLineWithinMax ==
    tpc = "split_done" =>
        \A i \in 1..Len(split_lines) : DisplayWidth(split_lines[i]) <= SplitMax

\* C26 (amended): every line split_text returns has width at most M, or is one
\* single non-ASCII character (width 2) returned under M = 1.
C26_LineWithinMaxOrOneChar ==
    tpc = "split_done" =>
        \A i \in 1..Len(split_lines) :
            \/ DisplayWidth(split_lines[i]) <= SplitMax
            \/ SplitMax = 1 /\ Len(split_lines[i]) = 1 /\ ~IsAscii(split_lines[i][1])

\* a text with non-ASCII characters was cut into several lines, by words and
\* by characters
C26_Witness ==
    /\ tpc = "split_done" /\ SplitMax = 2 /\ ~split_options.word_aware_split
    /\ split_input = <<JA, "a", "a", JA>>
    /\ split_lines = << <<JA>>, <<"a", "a">>, <<JA>> >>

C26_WitnessWords ==
    /\ tpc = "split_done" /\ SplitMax = 3 /\ split_options.word_aware_split
    /\ split_input = <<"a", SP, "a", "a">>
    /\ split_lines = << <<"a">>, <<"a", "a">> >>

(***************************************************************************)
(* Plugin commands (357): PluginCommandHandler::extract                    *)
(***************************************************************************)
\* serde_json::Value::Object: the members in the order of the map
JObj(members) == [t |-> "object", o |-> members]
Member(k, val) == [k |-> k, val |-> val]

\* PathPattern::new
PathPatternNew(p) == [pattern |-> p, regex |-> compile_pattern(p)]

\* PluginExtractionConfig::new(name).add_path(p, ..) for every p of patterns
PluginConfig(name, patterns) ==
    [plugin_name |-> name,
     extraction_paths |-> [i \in 1..Len(patterns) |->
                              [pattern |-> patterns[i], translatable |-> TRUE]],
     enabled |-> TRUE]

MESSAGE == <<"m", "e", "s", "s", "a", "g", "e">>
TorigoyaMZ_NotifyMessage ==
    <<"T", "o", "r", "i", "g", "o", "y", "a", "M", "Z", "_",
      "N", "o", "t", "i", "f", "y", "M", "e", "s", "s", "a", "g", "e">>
NotifyMessage_Battle ==
    <<"N", "o", "t", "i", "f", "y", "M", "e", "s", "s", "a", "g", "e", "_",
      "B", "a", "t", "t", "l", "e">>
BattleLogOutput ==
    <<"B", "a", "t", "t", "l", "e", "L", "o", "g", "O", "u", "t", "p", "u", "t">>

\* PluginCommandHandler::load_predefined_configs
predefined_configs ==
    [n \in {TorigoyaMZ_NotifyMessage, NotifyMessage_Battle, BattleLogOutput} |->
        PluginConfig(n, <<MESSAGE>>)]

\* PluginCommandHandler::get_config: a user config takes precedence
get_config(configs, plugin_name) ==
    IF plugin_name \in DOMAIN configs THEN Some(configs[plugin_name])
    ELSE IF plugin_name \in DOMAIN predefined_configs
    THEN Some(predefined_configs[plugin_name])
    ELSE None

\* format!("{}.{}", current_path, key), or the key alone at the top
ChildPath(current_path, k) ==
    IF current_path = <<>> THEN k ELSE current_path \o <<".">> \o k

\* PluginCommandHandler::find_matching_fields: the (path, value) pairs below
\* value whose path matches the pattern, in the order of the walk
RECURSIVE find_matching_fields(_, _, _)
RECURSIVE FindInMembers(_, _, _)
RECURSIVE FindInElements(_, _, _, _)
find_matching_fields(value, pat, current_path) ==
    IF value.t = "object" THEN FindInMembers(value.o, pat, current_path)
    ELSE IF value.t = "array" THEN FindInElements(value.a, 0, pat, current_path)
    ELSE <<>>

FindInMembers(members, pat, current_path) ==
    IF members = <<>> THEN <<>>
    ELSE LET new_path == ChildPath(current_path, Head(members).k)
             val == Head(members).val
         IN  (IF matches(pat.pattern, pat.regex, new_path)
              THEN << <<new_path, val>> >> ELSE <<>>)
             \o find_matching_fields(val, pat, new_path)
             \o FindInMembers(Tail(members), pat, current_path)

FindInElements(arr, i, pat, current_path) ==
    IF i >= Len(arr) THEN <<>>
    ELSE LET new_path == ChildPath(current_path, <<Decimal(i)>>)
             val == arr[i + 1]
         IN  (IF matches(pat.pattern, pat.regex, new_path)
              THEN << <<new_path, val>> >> ELSE <<>>)
             \o find_matching_fields(val, pat, new_path)
             \o FindInElements(arr, i + 1, pat, current_path)

\* str::replace('.', "_")
ReplaceDot(s) == [i \in 1..Len(s) |-> IF s[i] = "." THEN "_" ELSE s[i]]

\* format!("{}_plugin_{}_{}", base_path.to_unit_id(""), name.replace(..),
\* field_path.replace(..))
PluginUnitId(base_path, plugin_name, field_path) ==
    to_unit_id(base_path, "") \o <<"_plugin_">> \o ReplaceDot(plugin_name)
        \o <<"_">> \o ReplaceDot(field_path)

\* the units of the matches of one pattern
RECURSIVE UnitsOfMatches(_, _, _, _, _)
UnitsOfMatches(ms, plugin_name, base_path, ctx, opts) ==
    IF ms = <<>> THEN <<>>
    ELSE LET field_path == Head(ms)[1]
             value == Head(ms)[2]
             text == IF opts.trim_whitespace THEN Trim(value.v) ELSE value.v
         IN  (IF IsJStr(value) /\ ~(text = <<>> /\ ~opts.include_empty)
              THEN <<NewUnit(PluginUnitId(base_path, plugin_name, field_path),
                             append_index(append_key(base_path, "parameters"), 3),
                             357, text, ctx,
                             << <<"plugin:">> \o plugin_name, <<"field:">> \o field_path >>)>>
              ELSE <<>>)
             \o UnitsOfMatches(Tail(ms), plugin_name, base_path, ctx, opts)

\* the loop over config.extraction_paths
RECURSIVE UnitsOfPaths(_, _, _, _, _, _)
UnitsOfPaths(paths, plugin_name, args, base_path, ctx, opts) ==
    IF paths = <<>> THEN <<>>
    ELSE (IF ~Head(paths).translatable THEN <<>>
          ELSE UnitsOfMatches(find_matching_fields(args, PathPatternNew(Head(paths).pattern),
                                                   <<>>),
                              plugin_name, base_path, ctx, opts))
         \o UnitsOfPaths(Tail(paths), plugin_name, args, base_path, ctx, opts)

\* PluginCommandHandler::extract_from_args
extract_from_args(configs, plugin_name, args, list_path, idx, ctx, opts) ==
    LET config == get_config(configs, plugin_name)
    IN  IF config = None \/ ~config[1].enabled THEN <<>>
        ELSE UnitsOfPaths(config[1].extraction_paths, plugin_name, args,
                          append_index(list_path, idx), ctx, opts)

\* EventCommand::get_plugin_data
get_plugin_data(cmd) ==
    IF cmd.code # 357 THEN None
    ELSE IF Len(cmd.parameters) < 4 THEN None
    ELSE IF ~(HasStringParam(cmd, 0) /\ HasStringParam(cmd, 1) /\ HasStringParam(cmd, 2))
    THEN None
    ELSE Some([plugin_name |-> StringParam(cmd, 0), arguments |-> cmd.parameters[4]])

\* PluginCommandHandler::extract (357)
PluginExtract(configs, cmds, idx, list_path, ctx, opts) ==
    LET plugin_data == get_plugin_data(cmds[idx + 1])
    IN  IF ~opts.extract_plugins THEN ResultEmpty
        ELSE IF plugin_data = None THEN ResultEmpty
        ELSE LET us == extract_from_args(configs, plugin_data[1].plugin_name,
                                         plugin_data[1].arguments, list_path, idx, ctx, opts)
             IN  IF us = <<>> THEN ResultEmpty ELSE ResultMultiple(us, 1)

\* a plugin a user configures, and the patterns its config is made of
UserPlugin == <<"a", ".", "1">>
KeyA == <<"a">>
KeyA_A == <<"a", "_", "a">>
PluginPatterns == { KeyA, KeyA \o <<".">> \o KeyA, KeyA_A, OBJ, KeyA \o <<".">> \o ARY, MESSAGE }

\* the argument objects of the model
PluginArgs ==
    { JObj(<<Member(KeyA, JStr(TxA))>>),
      JObj(<<Member(KeyA, JObj(<<Member(KeyA, JStr(TxA))>>)), Member(KeyA_A, JStr(TxB))>>),
      JObj(<<Member(KeyA, JArr(<<JStr(TxA), JStr(TxB)>>))>>),
      JObj(<<Member(KeyA, JStr(<<>>)), Member(MESSAGE, JStr(TxB))>>),
      JObj(<<Member(MESSAGE, JStr(TxA))>>),
      JObj(<<>>) }

\* user_configs after zero or one add_user_config: a config of 1..MaxPluginPatterns
\* patterns for UserPlugin or for a predefined plugin
UserConfigs ==
    { [n \in {} |-> <<>>] } \cup
    { [n \in {name} |-> PluginConfig(name, ps)] :
          name \in {UserPlugin, BattleLogOutput},
          ps \in UNION { [1..m -> PluginPatterns] : m \in 1..MaxPluginPatterns } }

PluginInit ==
    /\ KeyIdle /\ ArchIdle
    /\ added = <<>> /\ pattern = <<>> /\ regex = <<>> /\ subject = <<>>
    /\ matched = <<>> /\ tpc = "idle"
    /\ split_options = <<>> /\ split_input = <<>> /\ split_lines = <<>>
    /\ user_configs \in UserConfigs
    /\ \E name \in {UserPlugin, BattleLogOutput}, args \in PluginArgs :
          list = <<JCmd(357, 0, <<JStr(name), JStr(<<>>), JStr(<<>>), args>>)>>
    /\ list0 = list
    /\ path_prefix = <<"events", "1", "pages", "0">>
    /\ eoptions \in { DefaultExtractionOptions, MachineTranslationOptions }
    /\ units = <<>>
    /\ prev_units = None
    /\ translations = [id \in {} |-> <<>>]
    /\ ioptions = DefaultInjectionOptions
    /\ commands = parse_commands(list)
    /\ before = commands
    /\ index = 0
    /\ last = -1
    /\ context = NewContext(eoptions.max_preceding_lines)
    /\ result = NewInjectionResult
    /\ eresult = ResultEmpty
    /\ ppc = "plugin"

\* the handler is called with the plugin command of the list
PluginExtractStep ==
    /\ ppc = "plugin"
    /\ index < Len(commands)
    /\ eresult' = PluginExtract(user_configs, commands, index, ListPath, context, eoptions)
    /\ units' = units \o eresult'.units
    /\ last' = index
    /\ index' = index + eresult'.consumed
    /\ ppc' = "plugin_extracted"
    /\ UNCHANGED <<list, list0, path_prefix, commands, eoptions, ioptions, translations,
                   prev_units, context, result, before>>
    /\ UNCHANGED <<keyVars, archVars, typeVars>>

PluginNext == PluginExtractStep

SpecPlugin == PluginInit /\ [][PluginNext]_vars

\* C27 (as stated): the ids of the units one extract returns are pairwise
\* distinct, plugin units included, also when the config lists several
\* patterns.
C27_PluginIdsDistinct ==
    ppc = "plugin_extracted" =>
        \A i, j \in 1..Len(units) : units[i].id = units[j].id => i = j

\* the part of C27 that holds: a config of one literal pattern gives distinct ids
C27_OnePatternOneField ==
    (ppc = "plugin_extracted"
        /\ \A n \in DOMAIN user_configs :
              Len(user_configs[n].extraction_paths) = 1
              /\ user_configs[n].extraction_paths[1].pattern # OBJ) =>
        \A i, j \in 1..Len(units) : units[i].id = units[j].id => i = j

\* the commands as parsed from the list that was extracted
OriginalCommands == parse_commands(list0)

\* the last iteration of the walker applied a translation at index last
LastStepApplied ==
    /\ last >= 0
    /\ InjectIteration(before, last, translations, ListPath, ioptions).result.applied > 0

\* C28 (as stated): a translation stored under id X is written only into the
\* command extract produced X from: whenever the walker applies a translation
\* at an index, the command it finds there is the command the extracted list
\* had at that index, not a line an earlier rewrite inserted or shifted there.
C28_WritesHitProducer ==
    LastStepApplied =>
        /\ last < Len(OriginalCommands)
        /\ before[last + 1] = OriginalCommands[last + 1]

\* the walker of inject_to_commands on the dialogue and choice commands
FairElems ==
    { JCmd(401, 0, <<JStr(TxA)>>), JCmd(401, 1, <<JStr(TxB)>>),
      ShowChoices(<<JStr(TxA), JStr(TxB)>>) }

\* inject_to_list is called: the list is parsed and the walk starts
InjectCall ==
    /\ ppc = "idle"
    /\ list' \in SeqsUpTo(FairElems, MaxFairLen)
    /\ list0' = list'
    /\ path_prefix' = <<"events", "1", "pages", "0">>
    /\ eoptions' = DefaultExtractionOptions
    /\ units' = extract_from_list(list', path_prefix', eoptions')
    /\ prev_units' = None
    /\ translations' \in TranslationMaps(units')
    /\ ioptions' \in InjectionPresets
    /\ commands' = parse_commands(list')
    /\ before' = commands'
    /\ index' = 0
    /\ last' = -1
    /\ context' = NewContext(5)
    /\ result' = NewInjectionResult
    /\ eresult' = ResultEmpty
    /\ ppc' = "inject"
    /\ UNCHANGED <<keyVars, archVars, typeVars>>

InjectFairNext == InjectCall \/ InjectStep \/ InjectEnd

\* what the steps of the run do to its position: the call starts the loop, an
\* iteration advances index by one, the failed loop test ends the walk
CallStarts == ppc = "idle" /\ ppc' = "inject"
LoopAdvances == ppc = "inject" /\ index < Len(commands) /\ index' = index + 1
LoopExits == ppc = "inject" /\ index >= Len(commands) /\ ppc' = "done"

\* the run is sequential code on one thread: a step that can be taken is taken
\* before the call nothing of the page is loaded
InjectFairInit == KeyIdle /\ ArchIdle /\ TypeIdle /\ PageIdle

SpecInjectFair ==
    /\ InjectFairInit
    /\ [][InjectFairNext]_vars
    /\ WF_ppc(CallStarts) /\ WF_index(LoopAdvances) /\ WF_ppc(LoopExits)

\* every handler call of the walker so far received an index inside the list
\* as it was at the call, and the counting loop of the dialogue handler
\* stayed inside it
IndexInsideList ==
    last >= 0 => /\ last < Len(before)
                 /\ before[last + 1].code = 401 =>
                        last + OldCount(before, last, before[last + 1].indent, 0)
                            <= Len(before)

\* C29: injection into a command list terminates for every list and every
\* translation map of the model, also when a dialogue rewrite lengthens the
\* list under the walker, and every handler call receives an index inside the
\* list as it is at the call.
C29_TerminatesInsideList == []IndexInsideList /\ <>(ppc = "done")

\* a dialogue rewrite made the list longer than the list that was read, and the
\* walk over it ended
C29_Witness ==
    /\ ppc = "done"
    /\ Len(commands) > Len(OriginalCommands)
    /\ index = Len(commands)

\* the last iteration of the walker rewrote a dialogue run
LastStepRewroteRun ==
    /\ last >= 0
    /\ before[last + 1].code = 401
    /\ HasTranslation(translations, generate_unit_id(ListPath, last, "dialogue"))

\* the number of 401 lines the last rewrite put in place of the run
LinesWritten ==
    Len(commands) - Len(before) + OldCount(before, last, before[last + 1].indent, 0)

\* C30 (as stated): injecting a translation for a dialogue run never removes
\* the dialogue: for every translation string, the empty one included, at least
\* one 401 command of the run's indent remains at the start index of the run.
C30_DialogueRemains ==
    LastStepRewroteRun =>
        /\ LinesWritten >= 1
        /\ last < Len(commands)
        /\ commands[last + 1].code = 401
        /\ commands[last + 1].indent = before[last + 1].indent

====
